---- MODULE Spec2Model ----
(***************************************************************************)
(* A model of slopCannon's clip store (ClipManager), window selector       *)
(* (AnalysisManager.suggest_clips), tool invocation with retry/recovery    *)
(* (FFmpegWrapper.run_cmd, ErrorRecovery) and export job                   *)
(* (FFmpegWrapper.export_clip.worker).                                     *)
(*                                                                         *)
(* Python's None is modelled as the empty tuple, a present value v as <<v>>.*)
(***************************************************************************)
EXTENDS Integers, Sequences, FiniteSets, TLC

VARIABLES
    \* ---- ClipManager ----
    clips,          \* self.clips: list of (start_ms, end_ms, score)
    current_start,  \* self.current_start: None or a position
    cm_call,        \* the ClipManager call in progress (name, arguments), else None
    cm_op,          \* the name of the last completed ClipManager call
    cm_err,         \* what that call raised: "none" or "ValueError"

    \* ---- AnalysisManager.suggest_clips ----
    sel_in,         \* the arguments and window scores of one suggest_clips call, else None
    sel_out,        \* what that call returned (the list `top`), None before it returns
    windows,        \* the list `windows` the call built, in scan order, None before
    sel_runs,       \* how many times the call has been made on these arguments
    \* ---- FFmpegWrapper.run_cmd ----
    retry_max,      \* self.retry_config.max_attempts
    rc,             \* the locals of the run_cmd call under way or last finished, else None
    \* ---- FFmpegWrapper.export_clip and its executor ----
    max_workers,    \* size of self.executor's worker pool
    pool_queue,     \* jobs submitted to the executor and not yet taken by a worker
    job,            \* per export job: where its worker() stands and what it has done
    subs,           \* self.subs, the one SubtitleGenerator: its model_size and model
    settings,       \* MainWindow.subtitle_settings, the one SubtitleSettings object
    \* ---- functions checked on their own: arguments, then the result ----
    gd_in, gd_out,  \* RetryConfig.get_delay
    sc_in, sc_out,  \* the scoring loop of suggest_clips: signals in, silence penalties out
    gs_in, gs_out,  \* SubtitleGenerator.generate_subtitles: segments in, events out
    bk_in, bk_out,  \* the visual-score lookup of suggest_clips: index and length in, bucket out
    vs_in, vs_out,  \* the visual passes: what the decoder reports in, scores or error out
    fb,             \* ErrorRecovery.handle_model_load_error applied to its own result
    wr              \* the locals of a with_retry wrapper call, and what it has done

cmVars == <<clips, current_start, cm_call, cm_op, cm_err>>
selVars == <<sel_in, sel_out, windows, sel_runs>>
rcVars == <<retry_max, rc>>
exVars == <<max_workers, pool_queue, job, subs, settings>>
fnVars == <<gd_in, gd_out, sc_in, sc_out, gs_in, gs_out,
            bk_in, bk_out, vs_in, vs_out, fb, wr>>

vars == <<cmVars, selVars, rcVars, exVars, fnVars>>

None == <<>>
Some(v) == <<v>>
IsNone(o) == o = <<>>
Val(o) == o[1]

\* ---------------------------------------------------------------------------
\* Bounds of the model
\* ---------------------------------------------------------------------------
MaxClips == 2        \* longest clip list explored
MaxDurationSec == 6  \* longest media duration, in seconds
MaxMaxClips == 2     \* largest max_clips argument
MaxOverlapSec == 1   \* largest allowed_overlap_sec argument
MaxAttempts == 3     \* largest retry_config.max_attempts
NumJobs == 2         \* export jobs the executor can be handed
MaxWorkers == 2      \* largest worker pool
MaxRuns == 2         \* calls of suggest_clips on the same arguments
MaxAttemptIndex == 6 \* largest attempt index get_delay is asked about
MaxSegments == 3     \* transcribed segments of one clip
MaxSegWords == 2     \* timed words in one segment
MaxWordsPerLine == 2 \* largest words_per_line
MaxLinesPerEvent == 2 \* largest lines_per_event
MaxSignalSec == 2    \* longest signal whose loudness is scored, in seconds
MaxFallbackCalls == 8 \* calls of handle_model_load_error in one fallback chain
MaxWindowIdx == 5    \* largest window index whose visual scores are looked up
MaxBuckets == 4      \* longest array of visual scores

\* positions (ms) the callers pass: a negative one, zero and positive ones
Positions == {-1, 0, 1}
Scores == {1, 2}
Indices == -1 .. MaxClips
OptPositions == {None} \cup {Some(p) : p \in Positions}
OptScores == {None} \cup {Some(s) : s \in Scores}

\* ---------------------------------------------------------------------------
\* Objects as their constructors leave them
\* ---------------------------------------------------------------------------
\* self.retry_config = RetryConfig(max_attempts=2, ...) in FFmpegWrapper.__init__
RetryConfigMaxAttempts == 2

Jobs == 1 .. NumJobs

\* SubtitleSettings(): the defaults of its constructor; the font stands for
\* the nine style fields that worker() copies into render_kwargs
NewSubtitleSettings == [font |-> "Comic Sans MS", model_size |-> "small"]

\* SubtitleGenerator(): model_size="small", model not loaded
NewSubtitleGenerator == [model_size |-> "small", model |-> None]

\* an export job nobody has submitted yet; `submitted` remembers the settings
\* as they were when export_clip was called, `used` what worker() read from the
\* settings object, `model_used` the model size that transcribed
NewJob ==
    [pc |-> "new", portrait |-> FALSE, overlay |-> FALSE, subtitles |-> FALSE,
     has_cb |-> FALSE, final_file |-> "out", temp_files |-> <<>>, files |-> {},
     stages |-> <<>>, warns |-> <<>>, cb_calls |-> <<>>,
     failed |-> None, error |-> None, escaped |-> None,
     submitted |-> None, used |-> None, model_used |-> None]

\* ---------------------------------------------------------------------------
\* ClipManager (src/slopcannon/managers/clip_manager.py)
\* ---------------------------------------------------------------------------
\* the calls a user of the store can make
ClipManagerCalls ==
    {<<"mark_start", p>> : p \in Positions}
    \cup {<<"mark_end", p, sc>> : p \in Positions, sc \in Scores}
    \cup {<<"add_clip", s, e, sc>> : s \in Positions, e \in Positions, sc \in Scores}
    \cup {<<"clear_clips">>}
    \cup {<<"remove_clip", i>> : i \in Indices}
    \cup {<<"update_clip", i, s, e, sc>> :
              i \in Indices, s \in OptPositions, e \in OptPositions, sc \in OptScores}

\* a caller enters a method of the store (the store is single-writer); the
\* methods that append are entered only while the list is shorter than MaxClips
Call(c) ==
    /\ IsNone(cm_call)
    /\ c[1] \in {"mark_end", "add_clip"} => Len(clips) < MaxClips
    /\ cm_call' = Some(c)
    /\ cm_op' = "running"
    /\ cm_err' = "none"
    /\ UNCHANGED <<clips, current_start>>

\* the call in progress is method `name` with arguments `args`; it completes
Running(c) ==
    /\ cm_call = Some(c)
    /\ cm_call' = None
    /\ cm_op' = c[1]

\* del self.clips[index], index 0-based
DelAt(s, index) ==
    [i \in 1 .. (Len(s) - 1) |-> IF i <= index THEN s[i] ELSE s[i + 1]]

\* self.clips[index] = v, index 0-based
SetAt(s, index, v) == [s EXCEPT ![index + 1] = v]

mark_start(position_ms) ==
    /\ Running(<<"mark_start", position_ms>>)
    /\ current_start' = Some(position_ms)
    /\ clips' = clips
    /\ cm_err' = "none"

mark_end_Reset(position_ms, score) ==
    /\ Running(<<"mark_end", position_ms, score>>)
    /\ IF IsNone(current_start) \/ position_ms <= Val(current_start)
       THEN /\ cm_err' = "ValueError"
            /\ clips' = clips
            /\ current_start' = None
       ELSE /\ cm_err' = "none"
            /\ clips' = Append(clips, <<Val(current_start), position_ms, score>>)
            /\ current_start' = None

\* a mark_end that leaves the start pending after it has stored the clip
mark_end_KeepStart(position_ms, score) ==
    /\ Running(<<"mark_end", position_ms, score>>)
    /\ IF IsNone(current_start)
       THEN /\ cm_err' = "ValueError"
            /\ UNCHANGED <<clips, current_start>>
       ELSE IF position_ms <= Val(current_start)
       THEN /\ cm_err' = "ValueError"
            /\ UNCHANGED <<clips, current_start>>
       ELSE /\ cm_err' = "none"
            /\ clips' = Append(clips, <<Val(current_start), position_ms, score>>)
            /\ current_start' = current_start

\* a mark_end that puts the new clip in front of the list
mark_end_Prepend(position_ms, score) ==
    /\ Running(<<"mark_end", position_ms, score>>)
    /\ IF IsNone(current_start)
       THEN /\ cm_err' = "ValueError"
            /\ UNCHANGED <<clips, current_start>>
       ELSE IF position_ms <= Val(current_start)
       THEN /\ cm_err' = "ValueError"
            /\ UNCHANGED <<clips, current_start>>
       ELSE /\ cm_err' = "none"
            /\ clips' = <<(<<Val(current_start), position_ms, score>>)>> \o clips
            /\ current_start' = None

mark_end(position_ms, score) ==
    /\ Running(<<"mark_end", position_ms, score>>)
    /\ IF IsNone(current_start)
       THEN /\ cm_err' = "ValueError"
            /\ UNCHANGED <<clips, current_start>>
       ELSE IF position_ms <= Val(current_start)
       THEN /\ cm_err' = "ValueError"
            /\ UNCHANGED <<clips, current_start>>
       ELSE /\ cm_err' = "none"
            /\ clips' = Append(clips, <<Val(current_start), position_ms, score>>)
            /\ current_start' = None

add_clip_Geq(start_ms, end_ms, score) ==
    /\ Running(<<"add_clip", start_ms, end_ms, score>>)
    /\ cm_err' = "none"
    /\ current_start' = current_start
    /\ IF end_ms >= start_ms
       THEN clips' = Append(clips, <<start_ms, end_ms, score>>)
       ELSE clips' = clips

add_clip_Raise(start_ms, end_ms, score) ==
    /\ Running(<<"add_clip", start_ms, end_ms, score>>)
    /\ current_start' = current_start
    /\ IF end_ms > start_ms
       THEN /\ cm_err' = "none"
            /\ clips' = Append(clips, <<start_ms, end_ms, score>>)
       ELSE /\ cm_err' = "ValueError"
            /\ clips' = clips

add_clip(start_ms, end_ms, score) ==
    /\ Running(<<"add_clip", start_ms, end_ms, score>>)
    /\ cm_err' = "none"
    /\ current_start' = current_start
    /\ IF end_ms > start_ms
       THEN clips' = Append(clips, <<start_ms, end_ms, score>>)
       ELSE clips' = clips

clear_clips ==
    /\ Running(<<"clear_clips">>)
    /\ clips' = <<>>
    /\ current_start' = None
    /\ cm_err' = "none"

\* a remove_clip that lets a negative index count from the end of the list
remove_clip_Wrap(index) ==
    /\ Running(<<"remove_clip", index>>)
    /\ cm_err' = "none"
    /\ current_start' = current_start
    /\ IF index < Len(clips) /\ -index <= Len(clips)
       THEN clips' = DelAt(clips, IF index < 0 THEN Len(clips) + index ELSE index)
       ELSE clips' = clips

remove_clip(index) ==
    /\ Running(<<"remove_clip", index>>)
    /\ cm_err' = "none"
    /\ current_start' = current_start
    /\ IF 0 <= index /\ index < Len(clips)
       THEN clips' = DelAt(clips, index)
       ELSE clips' = clips

\* the interval and score update_clip computes from its arguments and the stored clip
Merged(clip, start_ms, end_ms, score) ==
    << IF ~IsNone(start_ms) THEN Val(start_ms) ELSE clip[1],
       IF ~IsNone(end_ms) THEN Val(end_ms) ELSE clip[2],
       IF ~IsNone(score) THEN Val(score) ELSE clip[3] >>

update_clip_StoreFirst(index, start_ms, end_ms, score) ==
    /\ Running(<<"update_clip", index, start_ms, end_ms, score>>)
    /\ current_start' = current_start
    /\ IF 0 <= index /\ index < Len(clips)
       THEN LET m == Merged(clips[index + 1], start_ms, end_ms, score)
            IN  /\ clips' = SetAt(clips, index, m)
                /\ cm_err' = IF m[2] <= m[1] THEN "ValueError" ELSE "none"
       ELSE /\ cm_err' = "none"
            /\ clips' = clips

update_clip(index, start_ms, end_ms, score) ==
    /\ Running(<<"update_clip", index, start_ms, end_ms, score>>)
    /\ current_start' = current_start
    /\ IF 0 <= index /\ index < Len(clips)
       THEN LET m == Merged(clips[index + 1], start_ms, end_ms, score)
            IN  IF m[2] <= m[1]
                THEN /\ cm_err' = "ValueError"
                     /\ clips' = clips
                ELSE /\ cm_err' = "none"
                     /\ clips' = SetAt(clips, index, m)
       ELSE /\ cm_err' = "none"
            /\ clips' = clips

ClipManagerNext ==
    \/ \E c \in ClipManagerCalls : Call(c) /\ UNCHANGED <<selVars, rcVars, exVars, fnVars>>
    \/ \E p \in Positions : mark_start(p) /\ UNCHANGED <<selVars, rcVars, exVars, fnVars>>
    \/ \E p \in Positions, sc \in Scores : mark_end(p, sc) /\ UNCHANGED <<selVars, rcVars, exVars, fnVars>>
    \/ \E s \in Positions, e \in Positions, sc \in Scores :
           add_clip(s, e, sc) /\ UNCHANGED <<selVars, rcVars, exVars, fnVars>>
    \/ clear_clips /\ UNCHANGED <<selVars, rcVars, exVars, fnVars>>
    \/ \E i \in Indices : remove_clip(i) /\ UNCHANGED <<selVars, rcVars, exVars, fnVars>>
    \/ \E i \in Indices, s \in OptPositions, e \in OptPositions, sc \in OptScores :
           update_clip(i, s, e, sc) /\ UNCHANGED <<selVars, rcVars, exVars, fnVars>>

InitClips ==
    /\ clips = <<>>
    /\ current_start = None
    /\ cm_call = None
    /\ cm_op = "__init__"
    /\ cm_err = "none"
    /\ sel_in = None
    /\ sel_out = None
    /\ windows = None
    /\ sel_runs = 0
    /\ retry_max = RetryConfigMaxAttempts
    /\ rc = None
    /\ max_workers = 1
    /\ pool_queue = <<>>
    /\ job = [j \in Jobs |-> NewJob]
    /\ subs = NewSubtitleGenerator
    /\ settings = NewSubtitleSettings
    /\ gd_in = None /\ gd_out = None
    /\ sc_in = None /\ sc_out = None
    /\ gs_in = None /\ gs_out = None
    /\ bk_in = None /\ bk_out = None
    /\ vs_in = None /\ vs_out = None
    /\ fb = None
    /\ wr = None

SpecClips == InitClips /\ [][ClipManagerNext]_vars

\* ---------------------------------------------------------------------------
\* Properties of the clip store (checked under SpecClips)
\* ---------------------------------------------------------------------------

\* the call in progress, as (name, arguments...)
Pending == Val(cm_call)
Calling(name) == ~IsNone(cm_call) /\ Pending[1] = name

\* C1: after any sequence of ClipManager calls, failed ones included, every
\* stored clip has end_ms > start_ms.
C1_EndAfterStart ==
    \A i \in 1 .. Len(clips) : clips[i][2] > clips[i][1]

\* a call has failed on a store that holds two clips
C1_Witness ==
    /\ Len(clips) >= 2
    /\ cm_err = "ValueError"

\* C2: mark_end(pos) raises ValueError when no start is pending and when
\* pos <= the pending start, and then leaves the clip list and the pending
\* start as they were.
C2_MarkEndFailureKeepsStore ==
    [][(/\ Calling("mark_end")
        /\ (IsNone(current_start) \/ Pending[2] <= Val(current_start)))
           => /\ cm_err' = "ValueError"
              /\ clips' = clips
              /\ current_start' = current_start]_vars

\* mark_end has failed with a start pending (so pos <= start) and clips stored
C2_Witness ==
    /\ cm_op = "mark_end"
    /\ cm_err = "ValueError"
    /\ ~IsNone(current_start)
    /\ Len(clips) >= 1

\* the interval update_clip would store for the call in progress
PendingMerged == Merged(clips[Pending[2] + 1], Pending[3], Pending[4], Pending[5])

\* C3: update_clip on an in-range index whose merged interval has end <= start
\* raises ValueError and leaves every stored clip unchanged.
C3_UpdateFailureKeepsClips ==
    [][(/\ Calling("update_clip")
        /\ 0 <= Pending[2] /\ Pending[2] < Len(clips)
        /\ PendingMerged[2] <= PendingMerged[1])
           => /\ cm_err' = "ValueError"
              /\ clips' = clips]_vars

\* update_clip has raised on a store of two clips
C3_Witness ==
    /\ cm_op = "update_clip"
    /\ cm_err = "ValueError"
    /\ Len(clips) >= 2

\* C4: add_clip(start, end, score) raises nothing; with end <= start it changes
\* neither the clip list nor the pending start, with end > start it appends
\* exactly (start, end, score).
C4_AddClipSilentOrAppends ==
    [][Calling("add_clip")
           => /\ cm_err' = "none"
              /\ current_start' = current_start
              /\ IF Pending[3] <= Pending[2]
                 THEN clips' = clips
                 ELSE clips' = Append(clips, <<Pending[2], Pending[3], Pending[4]>>)]_vars

\* an add_clip was ignored on the empty store while a start was pending
C4_Witness ==
    /\ cm_op = "add_clip"
    /\ clips = <<>>
    /\ ~IsNone(current_start)

\* C22: a successful add_clip (end > start) and a successful mark_end (a
\* start pending, pos > start) each put exactly their (start, end, score) at
\* the end of the list get_clips returns and leave the clips before it as they
\* were; mark_start leaves the list alone. So the list holds the triples of
\* the successful calls, unchanged, in the order the calls completed.
C22_AddAndMarkRoundTrip ==
    [][/\ (Calling("add_clip") /\ Pending[3] > Pending[2])
           => clips' = Append(clips, <<Pending[2], Pending[3], Pending[4]>>)
       /\ (Calling("mark_end") /\ ~IsNone(current_start) /\ Pending[2] > Val(current_start))
           => /\ clips' = Append(clips, <<Val(current_start), Pending[2], Pending[3]>>)
              /\ cm_err' = "none"
       /\ Calling("mark_start")
           => /\ clips' = clips
              /\ current_start' = Some(Pending[2])]_vars

\* a mark_start/mark_end pair has completed behind a stored clip: the list
\* ends with the marked clip
C22_Witness ==
    /\ cm_op = "mark_end"
    /\ cm_err = "none"
    /\ Len(clips) = 2
    /\ IsNone(current_start)

\* the index of the call in progress lies outside the clip list
OutOfRange == Pending[2] < 0 \/ Pending[2] >= Len(clips)

\* C23: remove_clip and update_clip with an index outside the list change
\* neither the clips nor the pending start and raise nothing, whatever the
\* other arguments are.
C23_OutOfRangeIsNoOp ==
    [][((Calling("remove_clip") \/ Calling("update_clip")) /\ OutOfRange)
           => /\ clips' = clips
              /\ current_start' = current_start
              /\ cm_err' = "none"]_vars

\* update_clip with index -1 on a store of two clips, a start pending
C23_Witness ==
    /\ cm_op = "update_clip"
    /\ cm_err = "none"
    /\ Len(clips) = 2
    /\ ~IsNone(current_start)

\* C36: a successful mark_end appends exactly (pending start, pos, score) and
\* clears the pending start, and a mark_end with no start pending fails, so a
\* second mark_end with no mark_start in between fails; clear_clips clears
\* the pending start too; mark_start replaces whatever start was pending;
\* add_clip, remove_clip and update_clip leave the pending start alone.
C36_PendingStartLifecycle ==
    [][/\ (Calling("mark_end") /\ ~IsNone(current_start) /\ Pending[2] > Val(current_start))
           => /\ clips' = Append(clips, <<Val(current_start), Pending[2], Pending[3]>>)
              /\ current_start' = None
       /\ (Calling("mark_end") /\ IsNone(current_start))
           => /\ cm_err' = "ValueError"
              /\ current_start' = None
       /\ Calling("clear_clips") => current_start' = None
       /\ Calling("mark_start") => current_start' = Some(Pending[2])
       /\ (Calling("add_clip") \/ Calling("remove_clip") \/ Calling("update_clip"))
           => current_start' = current_start]_vars

\* a mark_end has failed for want of a pending start, behind a stored clip
C36_Witness ==
    /\ cm_op = "mark_end"
    /\ cm_err = "ValueError"
    /\ IsNone(current_start)
    /\ Len(clips) >= 1

\* C27: every stored clip has start_ms >= 0.
C27_StartNonNegative ==
    \A i \in 1 .. Len(clips) : clips[i][1] >= 0

\* ---------------------------------------------------------------------------
\* AnalysisManager.suggest_clips: windowing and top-K selection
\* (src/slopcannon/managers/analysis_manager.py)
\* Times are whole seconds; a window is (start_ms, end_ms, score). The fused
\* score of a window is an input here: a rank drawn from WindowScores.
\* ---------------------------------------------------------------------------
WindowSecs == {1, 2}
StrideSecs == {1, 2}
WindowScores == {0, 1, 2}

\* an enumeration that also takes the window that ends exactly at the duration
NumWindows_Inclusive(duration, window_sec, stride_sec) ==
    IF duration - window_sec < 0
    THEN 0
    ELSE ((duration - window_sec) \div stride_sec) + 1

\* len(np.arange(0, duration - window_sec, stride_sec))
NumWindows(duration, window_sec, stride_sec) ==
    IF duration - window_sec <= 0
    THEN 0
    ELSE ((duration - window_sec) + stride_sec - 1) \div stride_sec

\* the list `windows` in scan order; scores[k] is the score of the k-th window
EnumWindows(duration, window_sec, stride_sec, scores) ==
    [k \in 1 .. NumWindows(duration, window_sec, stride_sec) |->
        << ((k - 1) * stride_sec) * 1000,
           ((k - 1) * stride_sec + window_sec) * 1000,
           scores[k] >>]

\* an insertion that puts w in front of the elements that score the same
RECURSIVE InsertDesc_Unstable(_, _)
InsertDesc_Unstable(sorted, w) ==
    IF sorted = <<>> THEN <<w>>
    ELSE IF Head(sorted)[3] > w[3]
         THEN <<Head(sorted)>> \o InsertDesc_Unstable(Tail(sorted), w)
         ELSE <<w>> \o sorted

\* insert w behind every element whose score is >= its own
RECURSIVE InsertDesc(_, _)
InsertDesc(sorted, w) ==
    IF sorted = <<>> THEN <<w>>
    ELSE IF Head(sorted)[3] >= w[3]
         THEN <<Head(sorted)>> \o InsertDesc(Tail(sorted), w)
         ELSE <<w>> \o sorted

\* windows.sort(key=lambda x: x[2], reverse=True): stable, descending by score
RECURSIVE SortDesc(_)
SortDesc(ws) ==
    IF ws = <<>> THEN <<>>
    ELSE InsertDesc(SortDesc(SubSeq(ws, 1, Len(ws) - 1)), ws[Len(ws)])

\* the inner loop over used_intervals: does the candidate conflict with one of them
OverlapsUsed_NoTolerance(w, used, allowed_overlap_sec) ==
    \E i \in 1 .. Len(used) :
        ~ (w[2] <= used[i][1] \/ w[1] >= used[i][2])

OverlapsUsed(w, used, allowed_overlap_sec) ==
    \E i \in 1 .. Len(used) :
        ~ (\/ w[2] <= used[i][1] - allowed_overlap_sec * 1000
           \/ w[1] >= used[i][2] + allowed_overlap_sec * 1000)

\* the loop `for start_ms, end_ms, score in windows` from its i-th element on;
\* used_intervals holds the intervals of `top`, in the same order
RECURSIVE PickTop(_, _, _, _, _)
PickTop(ws, i, top, max_clips, allowed_overlap_sec) ==
    IF i > Len(ws) THEN top
    ELSE LET top2 == IF OverlapsUsed(ws[i], top, allowed_overlap_sec)
                     THEN top
                     ELSE Append(top, ws[i])
         IN  IF Len(top2) >= max_clips
             THEN top2
             ELSE PickTop(ws, i + 1, top2, max_clips, allowed_overlap_sec)

\* a windowing loop that goes on from the list the previous call built
InitialWindows_Kept(prev) == IF IsNone(prev) THEN <<>> ELSE Val(prev)

\* `windows = []` (line 152): nothing of an earlier call (prev is the list the
\* earlier call built) is kept
InitialWindows(prev) == <<>>

\* one call of suggest_clips, from the windowing loop on; it may be repeated on
\* the same AnalysisManager with the same signals and arguments
suggest_clips ==
    /\ ~IsNone(sel_in)
    /\ sel_runs < MaxRuns
    /\ LET a == Val(sel_in)
           ws == InitialWindows(windows) \o
                 EnumWindows(a.duration, a.window_sec, a.stride_sec, a.scores)
       IN  /\ windows' = Some(ws)
           /\ sel_out' = Some(PickTop(SortDesc(ws), 1, <<>>,
                                      a.max_clips, a.allowed_overlap_sec))
    /\ sel_runs' = sel_runs + 1
    /\ sel_in' = sel_in

\* the calls on short inputs: every duration, window, stride, cap, tolerance
\* and scoring within the bounds
ShortInputs ==
    UNION {{[duration |-> d, window_sec |-> w, stride_sec |-> s,
             max_clips |-> m, allowed_overlap_sec |-> a, scores |-> sc] :
               sc \in [1 .. NumWindows(d, w, s) -> WindowScores]} :
           d \in 0 .. MaxDurationSec, w \in WindowSecs, s \in StrideSecs,
           m \in 0 .. MaxMaxClips, a \in 0 .. MaxOverlapSec}

\* the call MainWindow.analyze_video makes (window_sec=20, stride_sec=5,
\* max_clips=5, allowed_overlap_sec=2) on a 60-second and a 20-second video,
\* every window scoring the same
DefaultInputs ==
    {[duration |-> d, window_sec |-> 20, stride_sec |-> 5,
      max_clips |-> 5, allowed_overlap_sec |-> 2,
      scores |-> [k \in 1 .. NumWindows(d, 20, 5) |-> 1]] : d \in {20, 60}}

InitSelect ==
    /\ clips = <<>>
    /\ current_start = None
    /\ cm_call = None
    /\ cm_op = "__init__"
    /\ cm_err = "none"
    /\ retry_max = RetryConfigMaxAttempts
    /\ rc = None
    /\ sel_out = None
    /\ windows = None
    /\ sel_runs = 0
    /\ \E a \in ShortInputs \cup DefaultInputs : sel_in = Some(a)
    /\ max_workers = 1
    /\ pool_queue = <<>>
    /\ job = [j \in Jobs |-> NewJob]
    /\ subs = NewSubtitleGenerator
    /\ settings = NewSubtitleSettings
    /\ gd_in = None /\ gd_out = None
    /\ sc_in = None /\ sc_out = None
    /\ gs_in = None /\ gs_out = None
    /\ bk_in = None /\ bk_out = None
    /\ vs_in = None /\ vs_out = None
    /\ fb = None
    /\ wr = None

SelectorNext ==
    \/ suggest_clips /\ UNCHANGED <<cmVars, rcVars, exVars, fnVars>>

SpecSelect == InitSelect /\ [][SelectorNext]_vars

\* ---------------------------------------------------------------------------
\* Properties of the window selector (checked under SpecSelect)
\* ---------------------------------------------------------------------------
Top == Val(sel_out)
TolMs == Val(sel_in).allowed_overlap_sec * 1000

C6_AtMostMaxClips ==
    ~IsNone(sel_out) => Len(Top) <= Val(sel_in).max_clips

\* the list of windows the call built
Built == Val(windows)

\* the whole seconds at which a window may start: the multiples of the stride
\* from which a whole window ends before the end of the input
WindowStarts(a) ==
    {k \in 0 .. a.duration : k % a.stride_sec = 0 /\ k + a.window_sec < a.duration}

\* C21: the scored windows are exactly those that start at a multiple of
\* stride_sec with start + window_sec < duration, in scan order, each ending
\* window_sec after its start; so there is no window and the result is empty
\* when duration <= window_sec, and a 60-second input with window 20 and stride
\* 5 gives the 8 windows that start at 0, 5, ..., 35 seconds.
C21_WindowsEnumerated ==
    ~IsNone(windows) =>
        LET a == Val(sel_in)
        IN  /\ Len(Built) = Cardinality(WindowStarts(a))
            /\ \A i \in 1 .. Len(Built) :
                   /\ Built[i][1] = (i - 1) * a.stride_sec * 1000
                   /\ (i - 1) * a.stride_sec \in WindowStarts(a)
                   /\ Built[i][2] = Built[i][1] + a.window_sec * 1000
            /\ a.duration <= a.window_sec => (Built = <<>> /\ Top = <<>>)
            /\ (a.duration = 60 /\ a.window_sec = 20 /\ a.stride_sec = 5) =>
                   [i \in 1 .. Len(Built) |-> Built[i][1]] =
                       <<0, 5000, 10000, 15000, 20000, 25000, 30000, 35000>>

\* the 60-second input has been windowed
C21_Witness ==
    /\ ~IsNone(windows)
    /\ Val(sel_in).duration = 60
    /\ Len(Built) = 8

Before(u, v) == u[3] > v[3] \/ (u[3] = v[3] /\ u[1] < v[1])

\* candidate w, expanded by the tolerance on both sides, intersects the
\* accepted interval u
Conflicts(w, u) == w[1] - TolMs < u[2] /\ u[1] < w[2] + TolMs

\* the windows built, and the windows returned, as sets
BuiltSet == {Built[i] : i \in 1 .. Len(Built)}
TopSet == {Top[i] : i \in 1 .. Len(Top)}

Markers == {"Conversion failed!", "Invalid data", "Output file is empty"}

\* what one launch of the tool can do: exit 0, exit nonzero with some stderr
\* text, or not start at all (subprocess.Popen raises OSError)
ToolOutcomes ==
    {[kind |-> "ok", stderr |-> {}], [kind |-> "oserror", stderr |-> {}]}
    \cup {[kind |-> "fail", stderr |-> s] : s \in SUBSET Markers}

Presets == {"ultrafast", "medium"}

\* the base-cut command export_clip builds
BaseCmd(portrait, overlay, preset) ==
    <<"ffmpeg", "-y", "-i", "input">> \o
    (IF overlay
     THEN <<"-stream_loop", "-1", "-i", "overlay", "-filter_complex", "vstack",
            "-map", "[outv]", "-map", "0:a?", "-c:v", "libx264",
            "-preset", preset, "-crf", "crf", "-ss", "start", "-t", "duration", "out">>
     ELSE (IF portrait
           THEN <<"-vf", "scale_pad", "-c:v", "libx264", "-preset", preset, "-crf", "crf">>
           ELSE <<"-c", "copy">>)
          \o <<"-ss", "start", "-t", "duration", "out">>)

\* the audio-extraction command
AudioCmd ==
    <<"ffmpeg", "-y", "-i", "out", "-vn", "-ac", "1", "-ar", "16000", "wav">>

\* the subtitle burn-in command
BurnCmd(preset) ==
    <<"ffmpeg", "-y", "-i", "out", "-vf", "subtitles=ass", "-c:v", "libx264",
      "-preset", preset, "-crf", "crf", "-c:a", "copy", "sub">>

Commands ==
    {BaseCmd(p, o, pr) : p \in BOOLEAN, o \in BOOLEAN, pr \in Presets}
    \cup {AudioCmd}
    \cup {BurnCmd(pr) : pr \in Presets}

\* x in cmd
InCmd(cmd, x) == \E i \in 1 .. Len(cmd) : cmd[i] = x

\* cmd.index(x), 1-based; x occurs in cmd
IndexOf(cmd, x) == CHOOSE i \in 1 .. Len(cmd) : cmd[i] = x /\ \A k \in 1 .. (i - 1) : cmd[k] # x

recover_from_ffmpeg_error_Never(stderr, cmd) == None

\* ErrorRecovery.recover_from_ffmpeg_error: Some(modified command), or None
recover_from_ffmpeg_error(stderr, cmd) ==
    IF /\ ("Conversion failed!" \in stderr \/ "Invalid data" \in stderr)
       /\ InCmd(cmd, "-preset")
       /\ cmd[IndexOf(cmd, "-preset") + 1] = "ultrafast"
    THEN Some([cmd EXCEPT ![IndexOf(cmd, "-preset") + 1] = "fast"])
    ELSE IF /\ "Output file is empty" \in stderr
            /\ InCmd(cmd, "-c") /\ InCmd(cmd, "copy")
         THEN Some([cmd EXCEPT ![IndexOf(cmd, "copy")] = "libx264"])
         ELSE None

\* the locals of run_cmd on entry (lines 26-28), with the history kept for checking:
\* launches (the commands launched), outcomes (what each launch did), sleeps (the
\* arguments of get_delay that were slept), recoveries (launches after which
\* recover_from_ffmpeg_error was called)
RunCmdEntry_Stale(cmd, allow_retry, config_max) ==
    [cmd |-> cmd, allow_retry |-> allow_retry,
     max_attempts |-> IF allow_retry THEN config_max ELSE 1,
     attempt |-> 1, last_error |-> None,
     status |-> "loop", result |-> None,
     launches |-> <<>>, outcomes |-> <<>>, sleeps |-> <<>>, recoveries |-> <<>>]

RunCmdEntry(cmd, allow_retry, config_max) ==
    [cmd |-> cmd, allow_retry |-> allow_retry,
     max_attempts |-> IF allow_retry THEN config_max ELSE 1,
     attempt |-> 0, last_error |-> None,
     status |-> "loop", result |-> None,
     launches |-> <<>>, outcomes |-> <<>>, sleeps |-> <<>>, recoveries |-> <<>>]

\* subprocess.CalledProcessError(returncode, cmd, stderr=stderr) of the n-th launch
CalledProcessError(cmd, stderr, n) ==
    [type |-> "CalledProcessError", cmd |-> cmd, stderr |-> stderr, launch |-> n]

\* the handler `except subprocess.CalledProcessError as e` (lines 61-69), then
\* the loop test and, with the budget used up, `raise last_error` (line 72)
Caught_KeepFirst(st, e) ==
    LET a == st.attempt + 1
        le == IF IsNone(st.last_error) THEN Some(e) ELSE st.last_error
    IN  IF a < st.max_attempts
        THEN [st EXCEPT !.last_error = le, !.attempt = a,
                        !.sleeps = Append(@, a - 1)]
        ELSE [st EXCEPT !.last_error = le, !.attempt = a,
                        !.status = "raised", !.result = le]

Caught(st, e) ==
    LET a == st.attempt + 1
    IN  IF a < st.max_attempts
        THEN [st EXCEPT !.last_error = Some(e), !.attempt = a,
                        !.sleeps = Append(@, a - 1)]
        ELSE [st EXCEPT !.last_error = Some(e), !.attempt = a,
                        !.status = "raised", !.result = Some(e)]

\* the recovery branch (lines 43-54) with a modified command at hand
Recovered_NoCount(st, recovered_cmd) ==
    [st EXCEPT !.cmd = recovered_cmd]

\* a recovery branch that backs off before it launches the modified command
Recovered_Sleeps(st, recovered_cmd) ==
    [st EXCEPT !.cmd = recovered_cmd, !.attempt = @ + 1,
               !.sleeps = Append(@, st.attempt)]

Recovered(st, recovered_cmd) ==
    [st EXCEPT !.cmd = recovered_cmd, !.attempt = @ + 1]

\* one pass through the body of `while attempt < max_attempts` (lines 30-69):
\* st are the locals before the launch, out is what the launch does
RunCmdIteration(st, out) ==
    LET n == Len(st.launches) + 1
        s1 == [st EXCEPT !.launches = Append(@, st.cmd), !.outcomes = Append(@, out)]
    IN  IF out.kind = "oserror"
        THEN [s1 EXCEPT !.status = "raised",
                        !.result = Some([type |-> "OSError", cmd |-> st.cmd,
                                         stderr |-> {}, launch |-> n])]
        ELSE IF out.kind = "ok"
        THEN [s1 EXCEPT !.status = "returned", !.result = Some(0)]
        ELSE IF st.allow_retry /\ st.attempt < st.max_attempts - 1
        THEN LET s2 == [s1 EXCEPT !.recoveries = Append(@, n)]
                 recovered_cmd == recover_from_ffmpeg_error(out.stderr, st.cmd)
             IN  IF ~IsNone(recovered_cmd)
                 THEN Recovered(s2, Val(recovered_cmd))
                 ELSE Caught(s2, CalledProcessError(st.cmd, out.stderr, n))
        ELSE Caught(s1, CalledProcessError(st.cmd, out.stderr, n))

\* a caller enters run_cmd(cmd, allow_retry); the loop test fails at once only
\* for a budget of 0, and `raise last_error` then raises None (a TypeError)
RunCmdCall(cmd, allow_retry) ==
    /\ IF IsNone(rc) THEN TRUE ELSE Val(rc).status # "loop"
    /\ LET st == RunCmdEntry(cmd, allow_retry, retry_max)
       IN  rc' = Some(IF st.attempt < st.max_attempts
                      THEN st
                      ELSE [st EXCEPT !.status = "raised",
                                      !.result = Some([type |-> "TypeError", cmd |-> cmd,
                                                       stderr |-> {}, launch |-> 0])])
    /\ retry_max' = retry_max

\* the tool is launched once more and its outcome handled
RunCmdAttempt(out) ==
    /\ ~IsNone(rc)
    /\ Val(rc).status = "loop"
    /\ rc' = Some(RunCmdIteration(Val(rc), out))
    /\ retry_max' = retry_max

InitRun ==
    /\ clips = <<>>
    /\ current_start = None
    /\ cm_call = None
    /\ cm_op = "__init__"
    /\ cm_err = "none"
    /\ sel_in = None
    /\ sel_out = None
    /\ windows = None
    /\ sel_runs = 0
    /\ retry_max \in 1 .. MaxAttempts
    /\ rc = None
    /\ max_workers = 1
    /\ pool_queue = <<>>
    /\ job = [j \in Jobs |-> NewJob]
    /\ subs = NewSubtitleGenerator
    /\ settings = NewSubtitleSettings
    /\ gd_in = None /\ gd_out = None
    /\ sc_in = None /\ sc_out = None
    /\ gs_in = None /\ gs_out = None
    /\ bk_in = None /\ bk_out = None
    /\ vs_in = None /\ vs_out = None
    /\ fb = None
    /\ wr = None

RunNext ==
    \/ \E cmd \in Commands, allow_retry \in BOOLEAN :
           RunCmdCall(cmd, allow_retry) /\ UNCHANGED <<cmVars, selVars, exVars, fnVars>>
    \/ \E out \in ToolOutcomes : RunCmdAttempt(out) /\ UNCHANGED <<cmVars, selVars, exVars, fnVars>>

SpecRun == InitRun /\ [][RunNext]_vars

\* ---------------------------------------------------------------------------
\* Properties of run_cmd (checked under SpecRun)
\* ---------------------------------------------------------------------------
R == Val(rc)
Finished == ~IsNone(rc) /\ R.status # "loop"

\* C7: one run_cmd call launches the tool at most max_attempts times, exactly
\* once when allow_retry is false, and every launch, a retry with a
\* recovery-modified command included, consumes one attempt of that budget.
C7_LaunchesWithinBudget ==
    ~IsNone(rc) =>
        /\ Len(R.launches) <= retry_max
        /\ Len(R.launches) <= R.max_attempts
        /\ R.status = "loop" => R.attempt = Len(R.launches)
        /\ (R.status # "loop" /\ ~R.allow_retry) => Len(R.launches) = 1

\* a call used its whole budget of at least two launches, the second launch
\* with a modified command
C7_Witness ==
    /\ Finished
    /\ retry_max >= 2
    /\ Len(R.launches) = retry_max
    /\ R.launches[2] # R.launches[1]

\* the launch failed and its error text holds the conversion-failure phrase
ConversionFailure(out) == out.kind = "fail" /\ "Conversion failed!" \in out.stderr

\* a budget of 3, a command with preset ultrafast, two conversion failures and a success
C8_Scenario ==
    /\ ~IsNone(rc)
    /\ retry_max = 3
    /\ R.allow_retry
    /\ Len(R.outcomes) = 3
    /\ InCmd(R.launches[1], "-preset")
    /\ R.launches[1][IndexOf(R.launches[1], "-preset") + 1] = "ultrafast"
    /\ ConversionFailure(R.outcomes[1])
    /\ ConversionFailure(R.outcomes[2])
    /\ R.outcomes[3].kind = "ok"

\* C8: with max_attempts = 3, a command with preset ultrafast that fails twice
\* with the conversion-failure error and then succeeds makes run_cmd return
\* success, and the third launch uses the modified command (preset fast).
C8_ThirdLaunchUsesFastPreset ==
    C8_Scenario =>
        /\ R.status = "returned"
        /\ R.result = Some(0)
        /\ R.launches[3] =
               [R.launches[1] EXCEPT ![IndexOf(R.launches[1], "-preset") + 1] = "fast"]
        /\ R.launches[3] # R.launches[1]

C8_Witness == C8_Scenario

\* every launch of the finished call exited nonzero with an error text that
\* holds none of the recovery phrases
AllUnmatchedFailures ==
    /\ Finished
    /\ Len(R.outcomes) >= 1
    /\ \A i \in 1 .. Len(R.outcomes) :
           R.outcomes[i].kind = "fail" /\ R.outcomes[i].stderr = {}

\* C9: when every attempt fails with an error text that matches no recovery
\* pattern, run_cmd launches the unchanged command exactly max_attempts times
\* and then raises the error of the last attempt.
C9_UnmatchedRetriedVerbatim ==
    AllUnmatchedFailures =>
        /\ Len(R.launches) = R.max_attempts
        /\ R.allow_retry => Len(R.launches) = retry_max
        /\ \A i \in 1 .. Len(R.launches) : R.launches[i] = R.launches[1]
        /\ R.status = "raised"
        /\ R.result = Some(CalledProcessError(R.launches[1], {}, Len(R.launches)))

\* three unmatched failures in a row ended a call
C9_Witness ==
    /\ AllUnmatchedFailures
    /\ Len(R.launches) >= 3

\* how often get_delay(arg) was slept in the call
SleepCount(arg) == Cardinality({i \in 1 .. Len(R.sleeps) : R.sleeps[i] = arg})

\* C34: within one run_cmd call, a launch of a command that recovery has
\* modified follows the failed launch with no sleep in between, and a launch
\* of the same command again follows exactly one sleep of get_delay(k - 1),
\* k being the launches made before it; after the failure of the last allowed
\* launch no recovery is computed and nothing is slept.
C34_BackoffOnlyBeforeVerbatimRetry ==
    ~IsNone(rc) =>
        /\ \A i \in 2 .. Len(R.launches) :
               IF R.launches[i] # R.launches[i - 1]
               THEN /\ SleepCount(i - 2) = 0
                    /\ (i - 1) \in {R.recoveries[k] : k \in 1 .. Len(R.recoveries)}
               ELSE SleepCount(i - 2) = 1
        /\ \A k \in 1 .. Len(R.sleeps) :
               /\ R.sleeps[k] + 1 <= Len(R.launches)
               /\ R.sleeps[k] + 1 < R.max_attempts
               /\ R.outcomes[R.sleeps[k] + 1].kind = "fail"
        /\ \A k \in 1 .. Len(R.recoveries) : R.recoveries[k] < R.max_attempts
        /\ (Len(R.launches) = R.max_attempts /\ R.max_attempts >= 1
               /\ R.outcomes[Len(R.outcomes)].kind = "fail") =>
               /\ R.status = "raised"
               /\ SleepCount(R.max_attempts - 1) = 0

\* a call of three launches: the second with a modified command right after
\* the first failure, the third the same command after one sleep, and the
\* third failed too
C34_Witness ==
    /\ Finished
    /\ Len(R.launches) = 3
    /\ R.launches[2] # R.launches[1]
    /\ R.launches[3] = R.launches[2]
    /\ R.sleeps = <<1>>
    /\ R.status = "raised"

\* ---------------------------------------------------------------------------
\* The export job: FFmpegWrapper.export_clip and its worker()
\* (src/slopcannon/utils/ffmpeg_wrapper.py, lines 74-161)
\* A worker is followed from one blocking call to the next: each tool
\* invocation (a whole run_cmd call), the transcription, the cleanup loop and
\* each call of the completion callback is one step. The files are "out" (the
\* base cut at output_file), "wav", "ass" and "sub" (<stem>_sub.mp4). Logging
\* is taken not to raise.
\* ---------------------------------------------------------------------------

\* FFmpegWrapper(... preset="ultrafast" ...), as MainWindow constructs it
WrapperPreset == "ultrafast"

\* the launch outcomes followed through a job: success, a failure whose text
\* matches no recovery pattern, a conversion failure, and a tool that does not start
JobToolOutcomes ==
    {out \in ToolOutcomes : out.stderr \in {{}, {"Conversion failed!"}}}

\* the outcomes of the launches of one run_cmd call, one per launch
OutcomeSeqs(n) == UNION {[1 .. k -> JobToolOutcomes] : k \in 1 .. n}

\* run_cmd's loop, fed the outcomes of its launches in turn
RECURSIVE RunCmdLoop(_, _)
RunCmdLoop(st, outs) ==
    IF st.status # "loop" \/ outs = <<>>
    THEN st
    ELSE RunCmdLoop(RunCmdIteration(st, Head(outs)), Tail(outs))

\* a whole call self.run_cmd(cmd) whose launches do what outs says
RunCmd(cmd, outs) == RunCmdLoop(RunCmdEntry(cmd, TRUE, retry_max), outs)

\* outs is the outcome of every launch of the call, no more and no fewer
Complete(r, outs) == r.status # "loop" /\ Len(r.launches) = Len(outs)

\* workers of the pool that are running a job
Busy == {j \in Jobs : job[j].pc \notin {"new", "queued", "done"}}

\* a submit that waits until a worker is free
export_clip_Blocking(j, portrait, overlay, subtitles, has_cb) ==
    /\ job[j].pc = "new"
    /\ Cardinality(Busy) < max_workers
    /\ job' = [job EXCEPT ![j] = [@ EXCEPT !.pc = "queued", !.portrait = portrait,
                                           !.overlay = overlay, !.subtitles = subtitles,
                                           !.has_cb = has_cb,
                                           !.submitted = Some(settings)]]
    /\ pool_queue' = Append(pool_queue, j)
    /\ UNCHANGED <<max_workers, subs, settings>>

\* export_clip(...): define worker() and hand it to the executor (line 161)
export_clip(j, portrait, overlay, subtitles, has_cb) ==
    /\ job[j].pc = "new"
    /\ job' = [job EXCEPT ![j] = [@ EXCEPT !.pc = "queued", !.portrait = portrait,
                                           !.overlay = overlay, !.subtitles = subtitles,
                                           !.has_cb = has_cb,
                                           !.submitted = Some(settings)]]
    /\ pool_queue' = Append(pool_queue, j)
    /\ UNCHANGED <<max_workers, subs, settings>>

\* an executor that starts a thread for every queued job
WorkerStart_NoLimit(j) ==
    /\ pool_queue # <<>>
    /\ Head(pool_queue) = j
    /\ pool_queue' = Tail(pool_queue)
    /\ job' = [job EXCEPT ![j] = [@ EXCEPT !.pc = "base", !.temp_files = <<>>]]
    /\ UNCHANGED <<max_workers, subs, settings>>

\* a free pool worker takes the oldest queued job and enters worker()
WorkerStart(j) ==
    /\ pool_queue # <<>>
    /\ Head(pool_queue) = j
    /\ Cardinality(Busy) < max_workers
    /\ pool_queue' = Tail(pool_queue)
    /\ job' = [job EXCEPT ![j] = [@ EXCEPT !.pc = "base", !.temp_files = <<>>]]
    /\ UNCHANGED <<max_workers, subs, settings>>

\* the job record after an exception e of stage `stage` reached `except Exception`
Raise(jb, stage, e) ==
    [jb EXCEPT !.pc = "except", !.failed = Some(stage), !.error = Some(e)]

\* the record of one stage in the job's history
StageDone(name, ok, launches) == [name |-> name, ok |-> ok, launches |-> launches]

\* lines 89-114: build the command, run_cmd(cmd), temp_files.append(final_file)
BaseCut(j, outs) ==
    /\ job[j].pc = "base"
    /\ LET jb == job[j]
           r == RunCmd(BaseCmd(jb.portrait, jb.overlay, WrapperPreset), outs)
           s == [jb EXCEPT !.stages = Append(@, StageDone("base", r.status = "returned",
                                                          Len(r.launches)))]
       IN  /\ Complete(r, outs)
           /\ job' = [job EXCEPT ![j] =
                  IF r.status = "returned"
                  THEN [s EXCEPT !.files = @ \cup {"out"},
                                 !.temp_files = Append(@, "out"),
                                 !.pc = IF jb.subtitles THEN "audio" ELSE "cleanup"]
                  ELSE Raise(s, "base", Val(r.result))]
    /\ UNCHANGED <<max_workers, pool_queue, subs, settings>>

\* the audio extraction, going on to the transcription whether or not the
\* tool call raised
AudioExtract_IgnoreFailure(j, outs) ==
    /\ job[j].pc = "audio"
    /\ LET jb == job[j]
           r == RunCmd(AudioCmd, outs)
       IN  /\ Complete(r, outs)
           /\ job' = [job EXCEPT ![j] =
                  [jb EXCEPT !.stages = Append(@, StageDone("audio", r.status = "returned",
                                                            Len(r.launches))),
                             !.temp_files = @ \o <<"ass", "wav">>,
                             !.files = @ \cup {"wav"}, !.pc = "subs"]]
    /\ UNCHANGED <<max_workers, pool_queue, subs, settings>>

\* lines 117-122: temp_files.extend([ass_file, audio_file]), run_cmd(audio extraction)
AudioExtract(j, outs) ==
    /\ job[j].pc = "audio"
    /\ LET jb == job[j]
           r == RunCmd(AudioCmd, outs)
           s == [jb EXCEPT !.stages = Append(@, StageDone("audio", r.status = "returned",
                                                          Len(r.launches))),
                           !.temp_files = @ \o <<"ass", "wav">>]
       IN  /\ Complete(r, outs)
           /\ job' = [job EXCEPT ![j] =
                  IF r.status = "returned"
                  THEN [s EXCEPT !.files = @ \cup {"wav"}, !.pc = "subs"]
                  ELSE Raise(s, "audio", Val(r.result))]
    /\ UNCHANGED <<max_workers, pool_queue, subs, settings>>

\* an exception of the transcription stage; it is raised by its only call
StageError(type) == [type |-> type, cmd |-> <<>>, stderr |-> {}, launch |-> 1]

\* the job record after the transcription stage raised an exception of that type
SubsFailed(jb, type) ==
    Raise([jb EXCEPT !.stages = Append(@, StageDone("subs", FALSE, 1))],
          "subs", StageError(type))

\* lines 124-131: read render_kwargs and model_size from the settings object
\* as it is now, then self.subs.update_model(model_size=...)
\* (subtitle_generator.py lines 15-23: set self.model_size, self.model = None)
update_model(j) ==
    /\ job[j].pc = "subs"
    /\ job' = [job EXCEPT ![j] = [@ EXCEPT !.pc = "ensure", !.used = Some(settings)]]
    /\ subs' = [model_size |-> settings.model_size, model |-> None]
    /\ UNCHANGED <<max_workers, pool_queue, settings>>

\* generate_subtitles line 49, self._ensure_model() (lines 25-31): load
\* WhisperModel(self.model_size) if self.model is None; loads says whether the
\* load works
EnsureModel(j, loads) ==
    /\ job[j].pc = "ensure"
    /\ IF ~IsNone(subs.model)
       THEN /\ job' = [job EXCEPT ![j] = [@ EXCEPT !.pc = "transcribe"]]
            /\ subs' = subs
       ELSE IF loads
       THEN /\ job' = [job EXCEPT ![j] = [@ EXCEPT !.pc = "transcribe"]]
            /\ subs' = [subs EXCEPT !.model = Some(subs.model_size)]
       ELSE /\ job' = [job EXCEPT ![j] = SubsFailed(@, "ModelLoadError")]
            /\ subs' = subs
    /\ UNCHANGED <<max_workers, pool_queue, settings>>

\* generate_subtitles lines 52-: self.model.transcribe(...) and the writing of
\* the .ass file, called once; ok says whether they return or raise. With
\* self.model reset to None in between, the attribute access raises.
Transcribe(j, ok) ==
    /\ job[j].pc = "transcribe"
    /\ job' = [job EXCEPT ![j] =
           IF IsNone(subs.model)
           THEN SubsFailed(@, "AttributeError")
           ELSE IF ok
           THEN [@ EXCEPT !.stages = Append(@, StageDone("subs", TRUE, 1)),
                          !.model_used = subs.model,
                          !.files = @ \cup {"ass"}, !.pc = "burn"]
           ELSE SubsFailed(@, "TranscriptionError")]
    /\ UNCHANGED <<max_workers, pool_queue, subs, settings>>

\* lines 136-142: run_cmd(burn_cmd), final_file = sub_output, temp_files.append(final_file)
BurnIn(j, outs) ==
    /\ job[j].pc = "burn"
    /\ LET jb == job[j]
           r == RunCmd(BurnCmd(WrapperPreset), outs)
           s == [jb EXCEPT !.stages = Append(@, StageDone("burn", r.status = "returned",
                                                          Len(r.launches)))]
       IN  /\ Complete(r, outs)
           /\ job' = [job EXCEPT ![j] =
                  IF r.status = "returned"
                  THEN [s EXCEPT !.files = @ \cup {"sub"}, !.final_file = "sub",
                                 !.temp_files = Append(@, "sub"), !.pc = "cleanup"]
                  ELSE Raise(s, "burn", Val(r.result))]
    /\ UNCHANGED <<max_workers, pool_queue, subs, settings>>

FileNames == {"out", "ass", "wav", "sub"}

\* what the file system does to one temp file during cleanup: f.exists() raises,
\* f.unlink() raises, or both work
CleanupOutcomes == {"deleted", "unlink_fails", "exists_raises"}

\* a cleanup that does not spare the final artifact
RECURSIVE CleanupLoop_DeletesFinal(_, _, _)
CleanupLoop_DeletesFinal(jb, i, oc) ==
    IF i > Len(jb.temp_files)
    THEN [jb EXCEPT !.pc = "callback"]
    ELSE LET f == jb.temp_files[i]
         IN  IF oc[f] = "exists_raises"
             THEN Raise(jb, "cleanup", [type |-> "OSError", cmd |-> <<>>,
                                        stderr |-> {}, launch |-> 0])
             ELSE IF f \in jb.files
             THEN IF oc[f] = "deleted"
                  THEN CleanupLoop_DeletesFinal([jb EXCEPT !.files = @ \ {f}], i + 1, oc)
                  ELSE CleanupLoop_DeletesFinal([jb EXCEPT !.warns = Append(@, f)], i + 1, oc)
             ELSE CleanupLoop_DeletesFinal(jb, i + 1, oc)

\* a cleanup that gives up at the first delete that fails
RECURSIVE CleanupLoop_StopsAtFailure(_, _, _)
CleanupLoop_StopsAtFailure(jb, i, oc) ==
    IF i > Len(jb.temp_files)
    THEN [jb EXCEPT !.pc = "callback"]
    ELSE LET f == jb.temp_files[i]
         IN  IF oc[f] = "exists_raises"
             THEN Raise(jb, "cleanup", [type |-> "OSError", cmd |-> <<>>,
                                        stderr |-> {}, launch |-> 0])
             ELSE IF f \in jb.files /\ f # jb.final_file
             THEN IF oc[f] = "deleted"
                  THEN CleanupLoop_StopsAtFailure([jb EXCEPT !.files = @ \ {f}], i + 1, oc)
                  ELSE [jb EXCEPT !.warns = Append(@, f), !.pc = "callback"]
             ELSE CleanupLoop_StopsAtFailure(jb, i + 1, oc)

\* the loop `for f in temp_files` (lines 146-152) from its i-th file on
RECURSIVE CleanupLoop(_, _, _)
CleanupLoop(jb, i, oc) ==
    IF i > Len(jb.temp_files)
    THEN [jb EXCEPT !.pc = "callback"]
    ELSE LET f == jb.temp_files[i]
         IN  IF oc[f] = "exists_raises"
             THEN Raise(jb, "cleanup", [type |-> "OSError", cmd |-> <<>>,
                                        stderr |-> {}, launch |-> 0])
             ELSE IF f \in jb.files /\ f # jb.final_file
             THEN IF oc[f] = "deleted"
                  THEN CleanupLoop([jb EXCEPT !.files = @ \ {f}], i + 1, oc)
                  ELSE CleanupLoop([jb EXCEPT !.warns = Append(@, f)], i + 1, oc)
             ELSE CleanupLoop(jb, i + 1, oc)

\* lines 144-152
Cleanup(j, oc) ==
    /\ job[j].pc = "cleanup"
    /\ job' = [job EXCEPT ![j] = CleanupLoop(job[j], 1, oc)]
    /\ UNCHANGED <<max_workers, pool_queue, subs, settings>>

\* one call of the completion callback
CallbackCall(path, error, raised) == [path |-> path, error |-> error, raised |-> raised]

\* a worker that ends a successful job without a word to the caller
CallbackSuccess_Skipped(j, raises) ==
    /\ job[j].pc = "callback"
    /\ job' = [job EXCEPT ![j] = [@ EXCEPT !.pc = "done"]]
    /\ UNCHANGED <<max_workers, pool_queue, subs, settings>>

\* lines 154-155: `if callback: callback(final_file)`; raises says whether the
\* callback raises
CallbackSuccess(j, raises) ==
    /\ job[j].pc = "callback"
    /\ LET jb == job[j]
       IN  job' = [job EXCEPT ![j] =
               IF ~jb.has_cb
               THEN [jb EXCEPT !.pc = "done"]
               ELSE LET s == [jb EXCEPT !.cb_calls =
                                  Append(@, CallbackCall(Some(jb.final_file), None, raises))]
                    IN  IF raises
                        THEN Raise(s, "callback", [type |-> "CallbackError", cmd |-> <<>>,
                                                   stderr |-> {}, launch |-> 0])
                        ELSE [s EXCEPT !.pc = "done"]]
    /\ UNCHANGED <<max_workers, pool_queue, subs, settings>>

ExceptHandler_LogOnly(j, raises) ==
    /\ job[j].pc = "except"
    /\ job' = [job EXCEPT ![j] = [@ EXCEPT !.pc = "done"]]
    /\ UNCHANGED <<max_workers, pool_queue, subs, settings>>

\* a failure that takes the executor down with it: the queued jobs are dropped
ExceptHandler_StopsPool(j, raises) ==
    /\ job[j].pc = "except"
    /\ job' = [job EXCEPT ![j] =
           [@ EXCEPT !.pc = "done",
                     !.cb_calls = IF job[j].has_cb
                                  THEN Append(@, CallbackCall(None, job[j].error, raises))
                                  ELSE @]]
    /\ pool_queue' = <<>>
    /\ UNCHANGED <<max_workers, subs, settings>>

\* lines 156-159: log, then `if callback: callback(None, e)`; an exception of
\* that call leaves worker()
ExceptHandler(j, raises) ==
    /\ job[j].pc = "except"
    /\ LET jb == job[j]
       IN  job' = [job EXCEPT ![j] =
               IF ~jb.has_cb
               THEN [jb EXCEPT !.pc = "done"]
               ELSE [jb EXCEPT !.pc = "done",
                               !.cb_calls = Append(@, CallbackCall(None, jb.error, raises)),
                               !.escaped = IF raises
                                           THEN Some([type |-> "CallbackError", cmd |-> <<>>,
                                                      stderr |-> {}, launch |-> 0])
                                           ELSE None]]
    /\ UNCHANGED <<max_workers, pool_queue, subs, settings>>

InitExport ==
    /\ clips = <<>>
    /\ current_start = None
    /\ cm_call = None
    /\ cm_op = "__init__"
    /\ cm_err = "none"
    /\ sel_in = None
    /\ sel_out = None
    /\ windows = None
    /\ sel_runs = 0
    /\ retry_max = RetryConfigMaxAttempts
    /\ rc = None
    /\ max_workers \in 1 .. MaxWorkers
    /\ pool_queue = <<>>
    /\ job = [j \in Jobs |-> NewJob]
    /\ subs = NewSubtitleGenerator
    /\ settings = NewSubtitleSettings
    /\ gd_in = None /\ gd_out = None
    /\ sc_in = None /\ sc_out = None
    /\ gs_in = None /\ gs_out = None
    /\ bk_in = None /\ bk_out = None
    /\ vs_in = None /\ vs_out = None
    /\ fb = None
    /\ wr = None

\* One job, job 1, is submitted and followed through worker() to its end.
ExportNext ==
    \/ \E p \in BOOLEAN, o \in BOOLEAN, s \in BOOLEAN, c \in BOOLEAN :
           export_clip(1, p, o, s, c) /\ UNCHANGED <<cmVars, selVars, rcVars, fnVars>>
    \/ \E j \in Jobs : WorkerStart(j) /\ UNCHANGED <<cmVars, selVars, rcVars, fnVars>>
    \/ \E j \in Jobs, outs \in OutcomeSeqs(retry_max) :
           BaseCut(j, outs) /\ UNCHANGED <<cmVars, selVars, rcVars, fnVars>>
    \/ \E j \in Jobs, outs \in OutcomeSeqs(retry_max) :
           AudioExtract(j, outs) /\ UNCHANGED <<cmVars, selVars, rcVars, fnVars>>
    \/ \E j \in Jobs : update_model(j) /\ UNCHANGED <<cmVars, selVars, rcVars, fnVars>>
    \/ \E j \in Jobs, loads \in BOOLEAN :
           EnsureModel(j, loads) /\ UNCHANGED <<cmVars, selVars, rcVars, fnVars>>
    \/ \E j \in Jobs, ok \in BOOLEAN :
           Transcribe(j, ok) /\ UNCHANGED <<cmVars, selVars, rcVars, fnVars>>
    \/ \E j \in Jobs, outs \in OutcomeSeqs(retry_max) :
           BurnIn(j, outs) /\ UNCHANGED <<cmVars, selVars, rcVars, fnVars>>
    \/ \E j \in Jobs, oc \in [FileNames -> CleanupOutcomes] :
           Cleanup(j, oc) /\ UNCHANGED <<cmVars, selVars, rcVars, fnVars>>
    \/ \E j \in Jobs, raises \in BOOLEAN :
           CallbackSuccess(j, raises) /\ UNCHANGED <<cmVars, selVars, rcVars, fnVars>>
    \/ \E j \in Jobs, raises \in BOOLEAN :
           ExceptHandler(j, raises) /\ UNCHANGED <<cmVars, selVars, rcVars, fnVars>>

SpecExport == InitExport /\ [][ExportNext]_vars

\* ---------------------------------------------------------------------------
\* Properties of the export job (checked under SpecExport)
\* ---------------------------------------------------------------------------
Done(j) == job[j].pc = "done"

\* the last call of job j's callback
LastCall(j) == job[j].cb_calls[Len(job[j].cb_calls)]

\* no call of job j's callback raised
CallbackReturned(j) ==
    \A i \in 1 .. Len(job[j].cb_calls) : ~job[j].cb_calls[i].raised

\* job j's callback was called with (None, error)
FailureReported(j) ==
    \E i \in 1 .. Len(job[j].cb_calls) :
        IsNone(job[j].cb_calls[i].path) /\ ~IsNone(job[j].cb_calls[i].error)

C31_CallbackExactlyOnce ==
    \A j \in Jobs :
        job[j].has_cb =>
            /\ Len(job[j].cb_calls) <= 1
            /\ Done(j) => Len(job[j].cb_calls) = 1

StageOrder == <<"base", "audio", "subs", "burn">>

\* the stage worker() is in, as a position in StageOrder; 0 outside the stages
StageAt(pc) ==
    CASE pc = "base" -> 1
      [] pc = "audio" -> 2
      [] pc \in {"subs", "ensure", "transcribe"} -> 3
      [] pc = "burn" -> 4
      [] OTHER -> 0

\* C11: the stages of a job run in the order base cut, audio extraction,
\* transcription, burn-in; a stage is entered only when every stage before it
\* has run and succeeded, no stage runs after a failed one, and a job without
\* subtitles runs the base cut only.
C11_StagesInOrder ==
    \A j \in Jobs :
        LET st == job[j].stages
        IN  /\ Len(st) <= Len(StageOrder)
            /\ \A i \in 1 .. Len(st) : st[i].name = StageOrder[i]
            /\ \A i \in 1 .. Len(st) - 1 : st[i].ok
            /\ ~job[j].subtitles => Len(st) <= 1
            /\ StageAt(job[j].pc) > 0 =>
                   /\ Len(st) = StageAt(job[j].pc) - 1
                   /\ \A i \in 1 .. Len(st) : st[i].ok
            /\ (Done(j) /\ IsNone(job[j].failed)) =>
                   /\ Len(st) = IF job[j].subtitles THEN Len(StageOrder) ELSE 1
                   /\ \A i \in 1 .. Len(st) : st[i].ok

\* a job with subtitles has run all four stages
C11_Witness ==
    \E j \in Jobs :
        /\ Done(j)
        /\ job[j].subtitles
        /\ Len(job[j].stages) = 4
        /\ job[j].stages[4].ok

\* the stages that call the external tool through run_cmd
ToolStages == {"base", "audio", "burn"}

\* the last stage job j has run
LastStage(j) == job[j].stages[Len(job[j].stages)]

\* job j has ended with the failure of one of its four stages
StageFailed(j) ==
    /\ Done(j)
    /\ ~IsNone(job[j].failed)
    /\ \E i \in 1 .. Len(StageOrder) : job[j].failed = Some(StageOrder[i])

\* C16: every stage, transcription included, is retried, so a job fails only
\* when a stage has failed max_attempts times; one failure of a stage never
\* fails the job.
C16_FailureOnlyAfterBudget ==
    \A j \in Jobs :
        StageFailed(j) =>
            /\ ~LastStage(j).ok
            /\ LastStage(j).launches = retry_max

\* C17: each run_cmd call has the whole attempt budget, whatever the earlier
\* calls of the job used: a tool stage launches the tool between 1 and
\* max_attempts times, and a tool stage that ends with the tool's failure has
\* launched it exactly max_attempts times.
C17_FreshBudgetPerCall ==
    \A j \in Jobs :
        \A i \in 1 .. Len(job[j].stages) :
            LET st == job[j].stages[i]
            IN  st.name \in ToolStages =>
                    /\ st.launches \in 1 .. retry_max
                    /\ (~st.ok /\ Val(job[j].error).type = "CalledProcessError") =>
                           st.launches = retry_max

\* the base cut needed every attempt of its budget to succeed, and the audio
\* extraction after it still had the whole budget and used it up
C17_Witness ==
    \E j \in Jobs :
        /\ Len(job[j].stages) = 2
        /\ job[j].stages[1].ok /\ job[j].stages[1].launches = retry_max
        /\ ~job[j].stages[2].ok /\ job[j].stages[2].launches = retry_max
        /\ retry_max >= 2

\* job j has ended without any failure
Succeeded(j) == Done(j) /\ IsNone(job[j].failed)

\* C18: a successful job without subtitles leaves exactly one file, the
\* artifact at the output path, and reports that path.
C18_NoSubtitlesLeavesOneFile ==
    \A j \in Jobs :
        (Succeeded(j) /\ ~job[j].subtitles) =>
            /\ job[j].final_file = "out"
            /\ job[j].files = {"out"}
            /\ job[j].warns = <<>>
            /\ job[j].has_cb => job[j].cb_calls = <<CallbackCall(Some("out"), None, FALSE)>>

\* a job without subtitles has ended in success
C18_Witness ==
    \E j \in Jobs :
        /\ Succeeded(j)
        /\ ~job[j].subtitles
        /\ job[j].temp_files = <<"out">>

\* the files whose delete failed and was logged
Warned(j) == {job[j].warns[i] : i \in 1 .. Len(job[j].warns)}

\* the intermediate files of a job with subtitles
Intermediates == {"out", "wav", "ass"}

\* C19: a successful job with subtitles keeps the <stem>_sub artifact and
\* reports its path; each of the base cut, the audio and the subtitle file is
\* deleted, unless its delete failed, which is logged and changes nothing else.
C19_IntermediatesDeletedFinalKept ==
    \A j \in Jobs :
        (Succeeded(j) /\ job[j].subtitles) =>
            /\ job[j].final_file = "sub"
            /\ "sub" \in job[j].files
            /\ job[j].files \ {"sub"} = Warned(j)
            /\ Warned(j) \subseteq Intermediates
            /\ job[j].has_cb => job[j].cb_calls = <<CallbackCall(Some("sub"), None, FALSE)>>

\* the delete of the base cut failed; the audio and the subtitle file are
\* gone, and the job has reported success
C19_Witness ==
    \E j \in Jobs :
        /\ Succeeded(j) /\ job[j].subtitles /\ job[j].has_cb
        /\ job[j].warns = <<"out">>
        /\ job[j].files = {"out", "sub"}
        /\ job[j].cb_calls = <<CallbackCall(Some("sub"), None, FALSE)>>

\* ---------------------------------------------------------------------------
\* The executor with several jobs (ffmpeg_wrapper.py lines 16-21 and 161,
\* main_window.py lines 253-266, settings_panel.py lines 126-138)
\* Every job is submitted as MainWindow.export_clips submits it: portrait,
\* overlay, subtitles, a callback and the one shared settings object. A tool
\* call works at once or fails on every launch, the transcription works or
\* raises, the deletes work and the callback returns.
\* ---------------------------------------------------------------------------

\* what os.cpu_count() may return
CpuCounts == {None, Some(1), Some(8)}

\* min(os.cpu_count() or 1, 4)
DefaultMaxWorkers(cpu_count) ==
    LET n == IF IsNone(cpu_count) \/ cpu_count = Some(0) THEN 1 ELSE Val(cpu_count)
    IN  IF n < 4 THEN n ELSE 4

\* the pool size FFmpegWrapper.__init__ uses for its max_workers argument
PoolSize(arg, cpu_count) ==
    IF IsNone(arg) THEN DefaultMaxWorkers(cpu_count) ELSE Val(arg)

\* the max_workers arguments: None, or an override
WorkerArgs == {None, Some(MaxWorkers)}

\* what the user saves: the defaults, or another font and another model size
SavedValues == {NewSubtitleSettings, [font |-> "Impact", model_size |-> "medium"]}

\* SettingsPanel.save: write the widgets' values into the settings object
save(v) ==
    /\ v # settings
    /\ settings' = v
    /\ UNCHANGED <<max_workers, pool_queue, job, subs>>

Ok == [kind |-> "ok", stderr |-> {}]
Fail == [kind |-> "fail", stderr |-> {}]

\* a tool call that works at once, and one whose every launch fails
PoolOutcomeSeqs == {<<Ok>>, [i \in 1 .. RetryConfigMaxAttempts |-> Fail]}

AllDeleted == [f \in FileNames |-> "deleted"]

\* the steps of the pool worker that runs job j
PoolWorker(j) ==
    \/ WorkerStart(j)
    \/ \E outs \in PoolOutcomeSeqs : BaseCut(j, outs)
    \/ \E outs \in PoolOutcomeSeqs : AudioExtract(j, outs)
    \/ update_model(j)
    \/ EnsureModel(j, TRUE)
    \/ \E ok \in BOOLEAN : Transcribe(j, ok)
    \/ \E outs \in PoolOutcomeSeqs : BurnIn(j, outs)
    \/ Cleanup(j, AllDeleted)
    \/ CallbackSuccess(j, FALSE)
    \/ ExceptHandler(j, FALSE)

\* a step of that worker in the whole program
PoolStep(j) == PoolWorker(j) /\ UNCHANGED <<cmVars, selVars, rcVars, fnVars>>

InitPool ==
    /\ clips = <<>>
    /\ current_start = None
    /\ cm_call = None
    /\ cm_op = "__init__"
    /\ cm_err = "none"
    /\ sel_in = None
    /\ sel_out = None
    /\ windows = None
    /\ sel_runs = 0
    /\ retry_max = RetryConfigMaxAttempts
    /\ rc = None
    /\ max_workers \in {PoolSize(a, c) : a \in WorkerArgs, c \in CpuCounts}
    /\ pool_queue = <<>>
    /\ job = [j \in Jobs |-> NewJob]
    /\ subs = NewSubtitleGenerator
    /\ settings = NewSubtitleSettings
    /\ gd_in = None /\ gd_out = None
    /\ sc_in = None /\ sc_out = None
    /\ gs_in = None /\ gs_out = None
    /\ bk_in = None /\ bk_out = None
    /\ vs_in = None /\ vs_out = None
    /\ fb = None
    /\ wr = None

PoolNext ==
    \/ \E j \in Jobs :
           export_clip(j, TRUE, TRUE, TRUE, TRUE) /\ UNCHANGED <<cmVars, selVars, rcVars, fnVars>>
    \/ \E j \in Jobs : PoolStep(j)

SpecPool == InitPool /\ [][PoolNext]_vars

\* a pool thread that has a step to take takes it: the executor's threads run
\* independently of each other and of the caller
SpecPoolFair == SpecPool /\ \A j \in Jobs : WF_vars(PoolStep(j))

\* One job, job 1, and a user who may save settings at any time, from before
\* the job is submitted until after it has ended.
InitSettings ==
    /\ clips = <<>>
    /\ current_start = None
    /\ cm_call = None
    /\ cm_op = "__init__"
    /\ cm_err = "none"
    /\ sel_in = None
    /\ sel_out = None
    /\ windows = None
    /\ sel_runs = 0
    /\ retry_max = RetryConfigMaxAttempts
    /\ rc = None
    /\ max_workers \in {PoolSize(a, c) : a \in WorkerArgs, c \in CpuCounts}
    /\ pool_queue = <<>>
    /\ job = [j \in Jobs |-> NewJob]
    /\ subs = NewSubtitleGenerator
    /\ settings = NewSubtitleSettings
    /\ gd_in = None /\ gd_out = None
    /\ sc_in = None /\ sc_out = None
    /\ gs_in = None /\ gs_out = None
    /\ bk_in = None /\ bk_out = None
    /\ vs_in = None /\ vs_out = None
    /\ fb = None
    /\ wr = None

SettingsNext ==
    \/ export_clip(1, TRUE, TRUE, TRUE, TRUE) /\ UNCHANGED <<cmVars, selVars, rcVars, fnVars>>
    \/ PoolStep(1)
    \/ \E v \in SavedValues : save(v) /\ UNCHANGED <<cmVars, selVars, rcVars, fnVars>>

SpecSettings == InitSettings /\ [][SettingsNext]_vars

\* ---------------------------------------------------------------------------
\* Properties of the executor (checked under SpecPool, SpecPoolFair and
\* SpecSettings)
\* ---------------------------------------------------------------------------

\* jobs in their transcription stage: between update_model and the end of
\* generate_subtitles
UsesSubs(j) == job[j].pc \in {"ensure", "transcribe"}

\* C12: concurrently running jobs share no mutable state but the queue: the
\* state of the subtitle generator that a job set up with update_model is
\* still what the job finds when it loads the model and when it transcribes,
\* whatever the other jobs do in between.
C12_JobsShareOnlyQueue ==
    \A j \in Jobs :
        /\ UsesSubs(j) => subs.model_size = Val(job[j].used).model_size
        /\ job[j].pc = "transcribe" => subs.model = Some(Val(job[j].used).model_size)

\* C13: at most max_workers jobs are inside worker() at any time, the default
\* pool size is between 1 and 4, and a submitted job that no worker has taken
\* waits in the queue, in the order of submission.
C13_AtMostMaxWorkersRunning ==
    /\ Cardinality(Busy) <= max_workers
    /\ max_workers >= 1
    /\ \A c \in CpuCounts : DefaultMaxWorkers(c) \in 1 .. 4
    /\ \A j \in Jobs :
           job[j].pc = "queued" <=> \E i \in 1 .. Len(pool_queue) : pool_queue[i] = j
    /\ \A i, k \in 1 .. Len(pool_queue) : pool_queue[i] = pool_queue[k] => i = k

\* every worker is busy and a submitted job waits in the queue
C13_Witness ==
    /\ Cardinality(Busy) = max_workers
    /\ pool_queue # <<>>

\* the callback call that reports job j's own outcome
OwnResult(j) ==
    IF IsNone(job[j].failed)
    THEN CallbackCall(Some(job[j].final_file), None, FALSE)
    ELSE CallbackCall(None, job[j].error, FALSE)

\* C14: a job's callback is called with that job's own outcome and nothing
\* else, so a failure is delivered to the failed job only; and whatever
\* failures there are, every submitted job is run to its end.
C14_FailureStaysInItsJob ==
    /\ [](\A j \in Jobs :
             /\ Done(j) => job[j].cb_calls = <<OwnResult(j)>>
             /\ ~Done(j) => job[j].cb_calls = <<>>)
    /\ \A j \in Jobs : (job[j].pc = "queued") ~> Done(j)

\* one job has reported the failure of its base cut, another its artifact
C14_Witness ==
    \E j, k \in Jobs :
        /\ Done(j) /\ job[j].failed = Some("base")
        /\ job[j].cb_calls = <<CallbackCall(None, job[j].error, FALSE)>>
        /\ Done(k) /\ IsNone(job[k].failed)
        /\ job[k].cb_calls = <<CallbackCall(Some("sub"), None, FALSE)>>

\* C32: a job whose _ensure_model has returned finds the shared model still
\* loaded when it calls transcribe, whatever the other running jobs do.
C32_ModelLoadedAtTranscribe ==
    \A j \in Jobs : job[j].pc = "transcribe" => ~IsNone(subs.model)

\* C33: with pool workers scheduled fairly and every tool and transcription
\* call ending, every submitted job has its callback called, and every job a
\* worker has taken is run to its end, whatever becomes of the other jobs.
C33_EveryJobCompletes ==
    \A j \in Jobs :
        /\ (job[j].pc = "queued") ~> (job[j].cb_calls # <<>>)
        /\ (j \in Busy) ~> Done(j)

\* with one worker, a job has been reported after another job used up the
\* retries of its burn-in and failed
C33_Witness ==
    /\ max_workers = 1
    /\ \E j, k \in Jobs :
           /\ Done(j) /\ job[j].failed = Some("burn")
           /\ job[j].stages[Len(job[j].stages)].launches = RetryConfigMaxAttempts
           /\ Done(k) /\ IsNone(job[k].failed)
           /\ job[k].cb_calls # <<>>

\* C15: the subtitle options a job uses are those in effect when export_clip
\* was called.
C15_OptionsAsSubmitted ==
    \A j \in Jobs : ~IsNone(job[j].used) => job[j].used = job[j].submitted

\* C20: export_clip can complete whether or not a worker is free, it leaves
\* the job in the queue with its callback not yet called, and the callback is
\* called only by a worker that has taken the job and run it.
C20_SubmitDoesNotWait ==
    \A j \in Jobs :
        /\ job[j].pc = "new" => ENABLED export_clip(j, TRUE, TRUE, TRUE, TRUE)
        /\ job[j].pc \in {"new", "queued"} => job[j].cb_calls = <<>>
        /\ job[j].cb_calls # <<>> => (job[j].stages # <<>> /\ job[j].pc \in {"except", "done"})

\* export_clip has returned for a job while no worker was free: the job sits
\* in the queue, its callback not called, behind jobs that occupy every worker
C20_Witness ==
    \E j \in Jobs :
        /\ job[j].pc = "queued"
        /\ job[j].cb_calls = <<>>
        /\ \E k \in Jobs \ {j} : k \in Busy
        /\ Cardinality(Busy) >= max_workers

\* ---------------------------------------------------------------------------
\* RetryConfig.get_delay (utils/error_handling.py)
\*
\* Delays are whole milliseconds on the way in and whole microseconds on the
\* way out, so that the jitter factor, a multiple of 1/1000, keeps the
\* arithmetic in the integers.
\* ---------------------------------------------------------------------------
MinOf(a, b) == IF a <= b THEN a ELSE b

\* base ** n
RECURSIVE Pow(_, _)
Pow(base, n) == IF n = 0 THEN 1 ELSE base * Pow(base, n - 1)

\* the values random.random() returns, in thousandths: the lowest, two in
\* between and the highest below 1
RandomDraws == {0, 250, 500, 999}

\* RetryConfig objects: the defaults (1 s, base 2, 30 s) and others around them
InitialDelays == {1000, 2000}
ExponentialBases == {1, 2, 3}
MaxDelays == {4000, 30000}

GetDelayInputs ==
    [initial_delay : InitialDelays, exponential_base : ExponentialBases,
     max_delay : MaxDelays, jitter : BOOLEAN,
     attempt : 0 .. MaxAttemptIndex, random : RandomDraws]

\* a delay that is never capped
CappedDelay_Uncapped(c, attempt) ==
    c.initial_delay * Pow(c.exponential_base, attempt)

\* delay = min(initial_delay * exponential_base ** attempt, max_delay), in ms
CappedDelay(c, attempt) ==
    MinOf(c.initial_delay * Pow(c.exponential_base, attempt), c.max_delay)

\* the value get_delay returns, in microseconds; r is the draw of
\* random.random(): `delay *= (0.5 + random.random())` when jitter is on
Delay(c, attempt, r) ==
    IF c.jitter THEN CappedDelay(c, attempt) * (500 + r)
    ELSE CappedDelay(c, attempt) * 1000

get_delay ==
    /\ ~IsNone(gd_in)
    /\ IsNone(gd_out)
    /\ gd_out' = Some(Delay(Val(gd_in), Val(gd_in).attempt, Val(gd_in).random))
    /\ gd_in' = gd_in
    /\ sc_in' = sc_in /\ sc_out' = sc_out
    /\ gs_in' = gs_in /\ gs_out' = gs_out
    /\ UNCHANGED <<bk_in, bk_out, vs_in, vs_out, fb, wr>>

InitDelay ==
    /\ clips = <<>>
    /\ current_start = None
    /\ cm_call = None
    /\ cm_op = "__init__"
    /\ cm_err = "none"
    /\ sel_in = None
    /\ sel_out = None
    /\ windows = None
    /\ sel_runs = 0
    /\ retry_max = RetryConfigMaxAttempts
    /\ rc = None
    /\ max_workers = 1
    /\ pool_queue = <<>>
    /\ job = [j \in Jobs |-> NewJob]
    /\ subs = NewSubtitleGenerator
    /\ settings = NewSubtitleSettings
    /\ \E a \in GetDelayInputs : gd_in = Some(a)
    /\ gd_out = None
    /\ sc_in = None /\ sc_out = None
    /\ gs_in = None /\ gs_out = None
    /\ bk_in = None /\ bk_out = None
    /\ vs_in = None /\ vs_out = None
    /\ fb = None
    /\ wr = None

DelayNext ==
    \/ get_delay /\ UNCHANGED <<cmVars, selVars, rcVars, exVars>>

SpecDelay == InitDelay /\ [][DelayNext]_vars

\* the delay the formula of the documentation gives, in microseconds, written
\* without the operators of the model
RECURSIVE Geometric(_, _, _)
Geometric(first, ratio, n) ==
    IF n = 0 THEN first ELSE ratio * Geometric(first, ratio, n - 1)

Unjittered ==
    LET a == Val(gd_in)
        g == Geometric(a.initial_delay, a.exponential_base, a.attempt)
    IN  1000 * (IF g < a.max_delay THEN g ELSE a.max_delay)

\* the delays, in seconds, of the default configuration
DefaultDelays == <<1, 2, 4, 8, 16, 30, 30>>

\* C24: with jitter off, get_delay(n) is min(initial_delay *
\* exponential_base^n, max_delay): never above max_delay, never below the
\* delay of attempt n - 1, and 1, 2, 4, 8, 16, 30, 30, ... seconds for an
\* initial delay of 1 s, base 2 and a maximum of 30 s.
C24_DelayWithoutJitter ==
    (~IsNone(gd_out) /\ ~Val(gd_in).jitter) =>
        LET a == Val(gd_in)
            n == a.attempt
        IN  /\ Val(gd_out) = Unjittered
            /\ Val(gd_out) <= 1000 * a.max_delay
            /\ n >= 1 => Delay(a, n - 1, a.random) <= Val(gd_out)
            /\ (a.initial_delay = 1000 /\ a.exponential_base = 2
                    /\ a.max_delay = 30000) =>
                   Val(gd_out) = 1000000 * (IF n + 1 <= Len(DefaultDelays)
                                           THEN DefaultDelays[n + 1] ELSE 30)

\* the default configuration was asked for the first capped delay
C24_Witness ==
    /\ ~IsNone(gd_out)
    /\ ~Val(gd_in).jitter
    /\ Val(gd_in).initial_delay = 1000
    /\ Val(gd_in).exponential_base = 2
    /\ Val(gd_in).max_delay = 30000
    /\ Val(gd_in).attempt = 5
    /\ Val(gd_out) = 30000000

\* C25: with jitter on, the delay returned is at least the un-jittered delay
\* and at most 1.5 times it, whatever the random draw.
C25_JitterOnlyAdds ==
    (~IsNone(gd_out) /\ Val(gd_in).jitter) =>
        /\ Val(gd_out) >= Unjittered
        /\ 2 * Val(gd_out) <= 3 * Unjittered

\* ---------------------------------------------------------------------------
\* SubtitleGenerator.generate_subtitles, from the flattening of the words on
\* (utils/subtitle_generator.py)
\*
\* Times are whole milliseconds. The text of a word is a number that tells it
\* from every other: 10 * k + w for word w of segment k, 10 * k for the text
\* of segment k.
\* ---------------------------------------------------------------------------
\* segment k of a transcription, with n timed words: segments are 35 s apart,
\* about 30 s long, and their words 1 s apart, about 0.5 s long; no time is a
\* whole number of centiseconds
Segment(k, n) ==
    [start |-> (k - 1) * 35000 + 4,
     end   |-> (k - 1) * 35000 + 30008,
     text  |-> 10 * k,
     words |-> [w \in 1 .. n |-> [start |-> (k - 1) * 35000 + (w - 1) * 1000 + 73,
                                  end   |-> (k - 1) * 35000 + (w - 1) * 1000 + 579,
                                  word  |-> 10 * k + w]]]

\* what model.transcribe may return: up to MaxSegments segments, each with
\* zero to MaxSegWords timed words
Transcriptions ==
    UNION {{[k \in 1 .. len |-> Segment(k, ns[k])] :
               ns \in [1 .. len -> 0 .. MaxSegWords]} : len \in 0 .. MaxSegments}

SubtitleInputs ==
    [segments : Transcriptions,
     words_per_line : 1 .. MaxWordsPerLine,
     lines_per_event : 1 .. MaxLinesPerEvent]

\* `for seg in segments`: the words of a segment, or one DummyWord for it
RECURSIVE Flatten(_)
Flatten(segments) ==
    IF segments = <<>> THEN <<>>
    ELSE LET seg == Head(segments)
         IN  (IF seg.words # <<>> THEN seg.words
              ELSE <<[start |-> seg.start, end |-> seg.end, word |-> seg.text]>>)
             \o Flatten(Tail(segments))

\* a chunk size that adds the two settings
ChunkSize_Sum(words_per_line, lines_per_event) == words_per_line + lines_per_event

\* chunk_size = words_per_line * lines_per_event
ChunkSize(words_per_line, lines_per_event) == words_per_line * lines_per_event

\* all_words[lo:hi] with 0 <= lo, in the indices of Python
Slice(s, lo, hi) == SubSeq(s, lo + 1, MinOf(hi, Len(s)))

\* [all_words[i:i+chunk_size] for i in range(0, len(all_words), chunk_size)]
Chunks(all_words, chunk_size) ==
    [c \in 1 .. (Len(all_words) + chunk_size - 1) \div chunk_size |->
        Slice(all_words, (c - 1) * chunk_size, c * chunk_size)]

\* _format_timestamp: hours, minutes, seconds and centiseconds, each cut off
format_timestamp(t) ==
    LET seconds == t \div 1000
    IN  <<seconds \div 3600, (seconds % 3600) \div 60, seconds % 60,
          (t % 1000) \div 10>>

\* the lines of an event: the slices of words_per_line words, the empty ones
\* skipped, each word with its \k duration in centiseconds
EventLines(chunk, words_per_line, lines_per_event) ==
    LET line(i) == Slice(chunk, (i - 1) * words_per_line, i * words_per_line)
        all == [i \in 1 .. lines_per_event |->
                   [j \in 1 .. Len(line(i)) |->
                       [k |-> (line(i)[j].end - line(i)[j].start) \div 10,
                        word |-> line(i)[j].word]]]
    IN  SelectSeq(all, LAMBDA l : l # <<>>)

\* the Dialogue line written for a chunk
Event(chunk, words_per_line, lines_per_event) ==
    [start |-> format_timestamp(chunk[1].start),
     end   |-> format_timestamp(chunk[Len(chunk)].end),
     lines |-> EventLines(chunk, words_per_line, lines_per_event)]

generate_subtitles ==
    /\ ~IsNone(gs_in)
    /\ IsNone(gs_out)
    /\ LET a == Val(gs_in)
           chunks == Chunks(Flatten(a.segments),
                            ChunkSize(a.words_per_line, a.lines_per_event))
       IN  gs_out' = Some([c \in 1 .. Len(chunks) |->
                              Event(chunks[c], a.words_per_line, a.lines_per_event)])
    /\ gs_in' = gs_in
    /\ gd_in' = gd_in /\ gd_out' = gd_out
    /\ sc_in' = sc_in /\ sc_out' = sc_out
    /\ UNCHANGED <<bk_in, bk_out, vs_in, vs_out, fb, wr>>

InitSubtitles ==
    /\ clips = <<>>
    /\ current_start = None
    /\ cm_call = None
    /\ cm_op = "__init__"
    /\ cm_err = "none"
    /\ sel_in = None
    /\ sel_out = None
    /\ windows = None
    /\ sel_runs = 0
    /\ retry_max = RetryConfigMaxAttempts
    /\ rc = None
    /\ max_workers = 1
    /\ pool_queue = <<>>
    /\ job = [j \in Jobs |-> NewJob]
    /\ subs = NewSubtitleGenerator
    /\ settings = NewSubtitleSettings
    /\ gd_in = None /\ gd_out = None
    /\ sc_in = None /\ sc_out = None
    /\ \E a \in SubtitleInputs : gs_in = Some(a)
    /\ gs_out = None
    /\ bk_in = None /\ bk_out = None
    /\ vs_in = None /\ vs_out = None
    /\ fb = None
    /\ wr = None

SubtitlesNext ==
    \/ generate_subtitles /\ UNCHANGED <<cmVars, selVars, rcVars, exVars>>

SpecSubtitles == InitSubtitles /\ [][SubtitlesNext]_vars

\* the events written
Events == Val(gs_out)

\* the words of event e, line after line
RECURSIVE Concat(_)
Concat(ss) == IF ss = <<>> THEN <<>> ELSE Head(ss) \o Concat(Tail(ss))

EventWords(e) == Concat(Events[e].lines)

\* the words of all events, event after event
Written == Concat([e \in 1 .. Len(Events) |-> EventWords(e)])

\* the input word, or whole segment, that a text stands for
Spoken(text) ==
    LET seg == Val(gs_in).segments[text \div 10]
    IN  IF text % 10 = 0 THEN [start |-> seg.start, end |-> seg.end]
        ELSE [start |-> seg.words[text % 10].start, end |-> seg.words[text % 10].end]

\* the texts that must be written: every timed word, and the text of every
\* segment that has none
Texts ==
    LET segs == Val(gs_in).segments
    IN  UNION {IF segs[k].words = <<>> THEN {10 * k}
               ELSE {10 * k + w : w \in 1 .. Len(segs[k].words)} :
               k \in 1 .. Len(segs)}

\* a written timestamp read back as centiseconds
Centiseconds(ts) == ((ts[1] * 60 + ts[2]) * 60 + ts[3]) * 100 + ts[4]

\* C28: the words are written in order, each exactly once, in events of
\* words_per_line * lines_per_event words (the last one possibly shorter);
\* an event spans from the start of its first word to the end of its last,
\* in the centiseconds a written timestamp holds; a segment without timed
\* words is written as one word that spans the segment.
C28_WordsChunkedIntoEvents ==
    ~IsNone(gs_out) =>
        LET a == Val(gs_in)
            size == a.words_per_line * a.lines_per_event
        IN  /\ {Written[i].word : i \in 1 .. Len(Written)} = Texts
            /\ \A i \in 1 .. Len(Written) - 1 : Written[i].word < Written[i + 1].word
            /\ \A i \in 1 .. Len(Written) :
                   Written[i].word \in Texts =>
                       Written[i].k = (Spoken(Written[i].word).end
                                         - Spoken(Written[i].word).start) \div 10
            /\ \A e \in 1 .. Len(Events) :
                   LET ws == EventWords(e)
                   IN  /\ ws # <<>>
                       /\ Len(ws) <= size
                       /\ e < Len(Events) => Len(ws) = size
                       /\ \A l \in 1 .. Len(Events[e].lines) :
                              Len(Events[e].lines[l]) <= a.words_per_line
                       /\ (ws # <<>> /\ ws[1].word \in Texts
                               /\ ws[Len(ws)].word \in Texts) =>
                              /\ Centiseconds(Events[e].start) =
                                     Spoken(ws[1].word).start \div 10
                              /\ Centiseconds(Events[e].end) =
                                     Spoken(ws[Len(ws)].word).end \div 10

\* three segments, the second one without timed words, written in more than
\* one event with a last event that is shorter, past the first minute
C28_Witness ==
    /\ ~IsNone(gs_out)
    /\ Len(Val(gs_in).segments) = 3
    /\ Val(gs_in).segments[1].words # <<>>
    /\ Val(gs_in).segments[2].words = <<>>
    /\ Val(gs_in).words_per_line = 2
    /\ Val(gs_in).lines_per_event = 2
    /\ Len(Events) >= 2
    /\ Len(EventWords(Len(Events))) < 4
    /\ Events[Len(Events)].end[2] >= 1

\* ---------------------------------------------------------------------------
\* The silence penalty of suggest_clips (managers/analysis_manager.py)
\*
\* Loudness samples are whole thousandths; a penalty is in thousandths too.
\* ---------------------------------------------------------------------------
\* hop_length = int(0.25 * sr): sr / hop_length samples of rms per second
FramesPerSec == 4

\* the loudness levels of a signal: a quiet one (0.001 and 0.01) and one that
\* is loud in places (0.01 and 0.5)
LevelPairs == {{1, 10}, {10, 500}}

\* librosa.feature.rms gives 1 + len(y) // hop_length samples
NumFrames(duration) == FramesPerSec * duration + 1

\* signals of 1 .. MaxSignalSec seconds, scored in windows of 1 s, 1 s apart
ScoreInputs ==
    UNION {{[rms |-> r, duration |-> d, window_sec |-> 1, stride_sec |-> 1] :
               r \in UNION {[1 .. NumFrames(d) -> P] : P \in LevelPairs}} :
           d \in 1 .. MaxSignalSec}

RECURSIVE SumSeq(_)
SumSeq(s) == IF s = <<>> THEN 0 ELSE Head(s) + SumSeq(Tail(s))

RECURSIVE MinSeq(_)
MinSeq(s) == IF Len(s) = 1 THEN s[1] ELSE MinOf(s[1], MinSeq(Tail(s)))

RECURSIVE MaxSeq(_)
MaxSeq(s) ==
    IF Len(s) = 1 THEN s[1]
    ELSE IF s[1] >= MaxSeq(Tail(s)) THEN s[1] ELSE MaxSeq(Tail(s))

\* np.mean(normalize(rms)[i0:i1]) > 0.02, where normalize(arr) is
\* (arr - min) / (ptp + 1e-6): with samples x in thousandths the mean is
\* sum(1000 * (x - min)) / (n * (1000 * ptp + 1))
MeanRmsAboveThreshold(rms, i0, i1) ==
    LET lo == MinSeq(rms)
        ptp == MaxSeq(rms) - lo
        part == Slice(rms, i0, i1)
        shifted == [i \in 1 .. Len(part) |-> 1000 * (part[i] - lo)]
    IN  100 * SumSeq(shifted) > 2 * Len(part) * (1000 * ptp + 1)

\* silence_penalty = 0.0 if mean_rms > 0.02 else -0.2
silence_penalty(rms, i0, i1) ==
    IF MeanRmsAboveThreshold(rms, i0, i1) THEN 0 ELSE -200

\* the windowing loop, for the silence penalty of each window: window w
\* starts at (w - 1) * stride_sec, i0 = int(start * sr / hop_length) and
\* i1 = int(end * sr / hop_length)
score_windows ==
    /\ ~IsNone(sc_in)
    /\ IsNone(sc_out)
    /\ LET a == Val(sc_in)
       IN  sc_out' = Some([w \in 1 .. NumWindows(a.duration, a.window_sec, a.stride_sec) |->
                              silence_penalty(a.rms,
                                  FramesPerSec * (w - 1) * a.stride_sec,
                                  FramesPerSec * ((w - 1) * a.stride_sec + a.window_sec))])
    /\ sc_in' = sc_in
    /\ gd_in' = gd_in /\ gd_out' = gd_out
    /\ gs_in' = gs_in /\ gs_out' = gs_out
    /\ UNCHANGED <<bk_in, bk_out, vs_in, vs_out, fb, wr>>

InitScore ==
    /\ clips = <<>>
    /\ current_start = None
    /\ cm_call = None
    /\ cm_op = "__init__"
    /\ cm_err = "none"
    /\ sel_in = None
    /\ sel_out = None
    /\ windows = None
    /\ sel_runs = 0
    /\ retry_max = RetryConfigMaxAttempts
    /\ rc = None
    /\ max_workers = 1
    /\ pool_queue = <<>>
    /\ job = [j \in Jobs |-> NewJob]
    /\ subs = NewSubtitleGenerator
    /\ settings = NewSubtitleSettings
    /\ gd_in = None /\ gd_out = None
    /\ \E a \in ScoreInputs : sc_in = Some(a)
    /\ sc_out = None
    /\ gs_in = None /\ gs_out = None
    /\ bk_in = None /\ bk_out = None
    /\ vs_in = None /\ vs_out = None
    /\ fb = None
    /\ wr = None

ScoreNext ==
    \/ score_windows /\ UNCHANGED <<cmVars, selVars, rcVars, exVars>>

SpecScore == InitScore /\ [][ScoreNext]_vars

\* the raw loudness samples of window w of the signal scored
RawSamples(w) ==
    LET a == Val(sc_in)
    IN  [i \in 1 .. FramesPerSec * a.window_sec |->
            a.rms[FramesPerSec * (w - 1) * a.stride_sec + i]]

\* C26: a window gets the silence penalty -0.2 exactly when the mean of its
\* raw loudness samples is below 0.02, and 0 otherwise.
C26_PenaltyOnRawLoudness ==
    ~IsNone(sc_out) =>
        \A w \in 1 .. Len(Val(sc_out)) :
            /\ Val(sc_out)[w] \in {0, -200}
            /\ Val(sc_out)[w] = -200 <=>
                   SumSeq(RawSamples(w)) < 20 * Len(RawSamples(w))

\* ---------------------------------------------------------------------------
\* ErrorRecovery.handle_model_load_error (utils/error_handling.py), applied
\* to its own result until it returns None
\* ---------------------------------------------------------------------------
model_hierarchy == <<"large-v3", "large-v2", "large", "medium", "small", "base", "tiny">>

\* model sizes that are not in the hierarchy
UnknownSizes ==
    {"tiny.en", "base.en", "small.en", "medium.en", "large-v1", "turbo",
     "large-v3-turbo", "distil-large-v3", "distil-medium.en", ""}

ModelSizes == {model_hierarchy[i] : i \in 1 .. Len(model_hierarchy)} \cup UnknownSizes

\* model_hierarchy.index(model_size), 1-based; 0 stands for the ValueError
HierarchyIndex(model_size) ==
    IF \E i \in 1 .. Len(model_hierarchy) : model_hierarchy[i] = model_size
    THEN CHOOSE i \in 1 .. Len(model_hierarchy) : model_hierarchy[i] = model_size
    ELSE 0

\* a fallback that starts again from the largest model after the smallest
handle_model_load_error_Wrap(model_size) ==
    LET current_idx == HierarchyIndex(model_size)
    IN  IF current_idx = 0 THEN None
        ELSE Some(model_hierarchy[(current_idx % Len(model_hierarchy)) + 1])

\* the value returned: the next entry of the hierarchy, None for the last
\* entry and for a size that is not in it
handle_model_load_error(model_size) ==
    LET current_idx == HierarchyIndex(model_size)
    IN  IF current_idx # 0 /\ current_idx < Len(model_hierarchy)
        THEN Some(model_hierarchy[current_idx + 1])
        ELSE None

\* what the call logs when it is given a log_callback
FallbackMessage(model_size) ==
    IF IsNone(handle_model_load_error(model_size)) THEN "[Error]" ELSE "[Recovery]"

\* the caller, whose model of size `failed` did not load, passes the size the
\* last call returned
FallbackStep ==
    /\ ~IsNone(fb)
    /\ ~IsNone(Val(fb).size)
    /\ Val(fb).calls < MaxFallbackCalls
    /\ LET f == Val(fb)
       IN  fb' = Some([f EXCEPT !.size = handle_model_load_error(Val(f.size)),
                               !.calls = f.calls + 1,
                               !.logs = IF f.has_log
                                        THEN Append(f.logs, FallbackMessage(Val(f.size)))
                                        ELSE f.logs])
    /\ UNCHANGED <<cmVars, selVars, rcVars, exVars>>
    /\ UNCHANGED <<gd_in, gd_out, sc_in, sc_out, gs_in, gs_out,
                   bk_in, bk_out, vs_in, vs_out, wr>>

InitFallback ==
    /\ clips = <<>>
    /\ current_start = None
    /\ cm_call = None
    /\ cm_op = "__init__"
    /\ cm_err = "none"
    /\ sel_in = None
    /\ sel_out = None
    /\ windows = None
    /\ sel_runs = 0
    /\ retry_max = RetryConfigMaxAttempts
    /\ rc = None
    /\ max_workers = 1
    /\ pool_queue = <<>>
    /\ job = [j \in Jobs |-> NewJob]
    /\ subs = NewSubtitleGenerator
    /\ settings = NewSubtitleSettings
    /\ gd_in = None /\ gd_out = None
    /\ sc_in = None /\ sc_out = None
    /\ gs_in = None /\ gs_out = None
    /\ bk_in = None /\ bk_out = None
    /\ vs_in = None /\ vs_out = None
    /\ \E s \in ModelSizes, l \in BOOLEAN :
           fb = Some([failed |-> s, size |-> Some(s), calls |-> 0,
                      has_log |-> l, logs |-> <<>>])
    /\ wr = None

FallbackNext ==
    \/ FallbackStep

SpecFallback == InitFallback /\ [][FallbackNext]_vars

\* the caller goes on calling as long as a size is returned
SpecFallbackFair == SpecFallback /\ WF_vars(FallbackStep)

\* the next strictly smaller size of each size that has one
NextSmaller ==
    [s \in {"large-v3", "large-v2", "large", "medium", "small", "base"} |->
        CASE s = "large-v3" -> "large-v2"
          [] s = "large-v2" -> "large"
          [] s = "large" -> "medium"
          [] s = "medium" -> "small"
          [] s = "small" -> "base"
          [] s = "base" -> "tiny"]

\* C39: each call of handle_model_load_error on a size of the hierarchy
\* returns the next strictly smaller size, and None for 'tiny' and for an
\* unknown size; applied to its own result it has returned None after at
\* most 7 calls, from any size.
C39_FallbackTerminates ==
    /\ [][~IsNone(fb) =>
             LET s == Val(Val(fb).size)
             IN  /\ s \in DOMAIN NextSmaller => Val(fb').size = Some(NextSmaller[s])
                 /\ s \notin DOMAIN NextSmaller => Val(fb').size = None]_vars
    /\ [](~IsNone(fb) => Val(fb).calls <= 7)
    /\ <>(~IsNone(fb) /\ IsNone(Val(fb).size))

\* the chain from large-v3 has ended with the seventh call
C39_Witness ==
    /\ ~IsNone(fb)
    /\ IsNone(Val(fb).size)
    /\ Val(fb).calls = 7
    /\ Val(fb).has_log
    /\ Len(Val(fb).logs) = 7

\* ---------------------------------------------------------------------------
\* The lookup of the visual scores in the windowing loop of suggest_clips
\* (managers/analysis_manager.py)
\*
\* Bucket b (0-based) of an array of scores holds the value 10 * b + 1 in the
\* scene array and 10 * b + 2 in the motion array, so that a value read tells
\* the bucket it was read from.
\* ---------------------------------------------------------------------------
SceneArray(len) == [i \in 1 .. len |-> 10 * (i - 1) + 1]
MotionArray(len) == [i \in 1 .. len |-> 10 * (i - 1) + 2]

BucketInputs ==
    [w_idx : 0 .. MaxWindowIdx,
     scene_scores : {SceneArray(len) : len \in 1 .. MaxBuckets},
     motion_scores : {MotionArray(len) : len \in 1 .. MaxBuckets}]

\* what stands for the IndexError of a read outside an array; no score is
\* negative
IndexError == -1

\* arr[idx] of a numpy array: a negative index counts from the end, an index
\* outside the array raises
At(arr, idx) ==
    IF 0 <= idx /\ idx < Len(arr) THEN arr[idx + 1]
    ELSE IF idx < 0 /\ -idx <= Len(arr) THEN arr[Len(arr) + idx + 1]
    ELSE IndexError

\* a lookup that starts again at bucket 0 past the end of the array
BucketIndex_Wrap(w_idx, len) == w_idx % len

\* min(w_idx, len(scores) - 1)
BucketIndex(w_idx, len) == MinOf(w_idx, len - 1)

\* scene_score and motion_score of window w_idx
lookup_visual_scores ==
    /\ ~IsNone(bk_in)
    /\ IsNone(bk_out)
    /\ LET a == Val(bk_in)
       IN  bk_out' = Some([scene_score |->
                               At(a.scene_scores, BucketIndex(a.w_idx, Len(a.scene_scores))),
                           motion_score |->
                               At(a.motion_scores, BucketIndex(a.w_idx, Len(a.motion_scores)))])
    /\ bk_in' = bk_in
    /\ UNCHANGED <<cmVars, selVars, rcVars, exVars>>
    /\ UNCHANGED <<gd_in, gd_out, sc_in, sc_out, gs_in, gs_out, vs_in, vs_out, fb, wr>>

InitBucket ==
    /\ clips = <<>>
    /\ current_start = None
    /\ cm_call = None
    /\ cm_op = "__init__"
    /\ cm_err = "none"
    /\ sel_in = None
    /\ sel_out = None
    /\ windows = None
    /\ sel_runs = 0
    /\ retry_max = RetryConfigMaxAttempts
    /\ rc = None
    /\ max_workers = 1
    /\ pool_queue = <<>>
    /\ job = [j \in Jobs |-> NewJob]
    /\ subs = NewSubtitleGenerator
    /\ settings = NewSubtitleSettings
    /\ gd_in = None /\ gd_out = None
    /\ sc_in = None /\ sc_out = None
    /\ gs_in = None /\ gs_out = None
    /\ \E a \in BucketInputs : bk_in = Some(a)
    /\ bk_out = None
    /\ vs_in = None /\ vs_out = None
    /\ fb = None
    /\ wr = None

BucketNext ==
    \/ lookup_visual_scores

SpecBucket == InitBucket /\ [][BucketNext]_vars

\* the 0-based bucket a value read from a scene or motion array came from
BucketOf(value) == value \div 10

\* C37: the bucket read for window w from an array of L >= 1 visual scores is
\* bucket w when w <= L - 1 and the last bucket, L - 1, otherwise; the read is
\* always inside the array.
C37_LookupClamped ==
    ~IsNone(bk_out) =>
        LET a == Val(bk_in)
            o == Val(bk_out)
            Ls == Len(a.scene_scores)
            Lm == Len(a.motion_scores)
        IN  /\ o.scene_score # IndexError
            /\ o.motion_score # IndexError
            /\ o.scene_score % 10 = 1
            /\ o.motion_score % 10 = 2
            /\ BucketOf(o.scene_score) \in 0 .. Ls - 1
            /\ BucketOf(o.motion_score) \in 0 .. Lm - 1
            /\ BucketOf(o.scene_score) = IF a.w_idx <= Ls - 1 THEN a.w_idx ELSE Ls - 1
            /\ BucketOf(o.motion_score) = IF a.w_idx <= Lm - 1 THEN a.w_idx ELSE Lm - 1

\* a window past the end of the scene array and inside the motion array
C37_Witness ==
    /\ ~IsNone(bk_out)
    /\ Val(bk_in).w_idx >= Len(Val(bk_in).scene_scores) + 1
    /\ Val(bk_in).w_idx < Len(Val(bk_in).motion_scores) - 1
    /\ BucketOf(Val(bk_out).scene_score) = Len(Val(bk_in).scene_scores) - 1

\* ---------------------------------------------------------------------------
\* AnalysisManager._calc_scene_change_scores and _calc_motion_scores on a
\* video of which at most one frame can be decoded
\* (managers/analysis_manager.py)
\* ---------------------------------------------------------------------------
\* what cap.get reports as CAP_PROP_FPS and CAP_PROP_FRAME_COUNT: 0 for a file
\* the decoder cannot make sense of, and values of a sound header
ReportedFps == {0, 1, 30}
ReportedFrameCounts == {0, 1, 300}

\* how many calls of cap.read() return a frame
DecodableFrames == {0, 1}

VisualInputs ==
    [pass : {"scene", "motion"}, fps : ReportedFps, frame_count : ReportedFrameCounts,
     frames : DecodableFrames, stride_sec : {1, 5}]

MaxOf(a, b) == IF a >= b THEN a ELSE b

\* np.zeros(n), after the normalisation (0 - 0) / (0 + 1e-6)
Zeros(n) == [i \in 1 .. n |-> 0]

\* num_windows = max(1, int(frame_count / fps / stride_sec)), fps not 0
VisualWindows(a) == MaxOf(1, a.frame_count \div (a.fps * a.stride_sec))

\* _calc_scene_change_scores: the division by fps comes first; the one frame
\* read adds no difference, and its progress line divides by frame_count when
\* log_interval = max(1, frame_count // 20) is 1
calc_scene_change_scores(a) ==
    IF a.fps = 0
    THEN [raised |-> "ZeroDivisionError", scores |-> <<>>]
    ELSE IF a.frames = 1 /\ 1 % MaxOf(1, a.frame_count \div 20) = 0 /\ a.frame_count = 0
    THEN [raised |-> "ZeroDivisionError", scores |-> <<>>]
    ELSE [raised |-> "none", scores |-> Zeros(VisualWindows(a))]

\* _calc_motion_scores: without a first frame it returns np.zeros(1) at once;
\* with one, it divides by fps and then finds no second frame
calc_motion_scores(a) ==
    IF a.frames = 0
    THEN [raised |-> "none", scores |-> Zeros(1)]
    ELSE IF a.fps = 0
    THEN [raised |-> "ZeroDivisionError", scores |-> <<>>]
    ELSE [raised |-> "none", scores |-> Zeros(VisualWindows(a))]

visual_pass ==
    /\ ~IsNone(vs_in)
    /\ IsNone(vs_out)
    /\ vs_out' = Some(IF Val(vs_in).pass = "scene"
                      THEN calc_scene_change_scores(Val(vs_in))
                      ELSE calc_motion_scores(Val(vs_in)))
    /\ vs_in' = vs_in
    /\ UNCHANGED <<cmVars, selVars, rcVars, exVars>>
    /\ UNCHANGED <<gd_in, gd_out, sc_in, sc_out, gs_in, gs_out, bk_in, bk_out, fb, wr>>

InitVisual ==
    /\ clips = <<>>
    /\ current_start = None
    /\ cm_call = None
    /\ cm_op = "__init__"
    /\ cm_err = "none"
    /\ sel_in = None
    /\ sel_out = None
    /\ windows = None
    /\ sel_runs = 0
    /\ retry_max = RetryConfigMaxAttempts
    /\ rc = None
    /\ max_workers = 1
    /\ pool_queue = <<>>
    /\ job = [j \in Jobs |-> NewJob]
    /\ subs = NewSubtitleGenerator
    /\ settings = NewSubtitleSettings
    /\ gd_in = None /\ gd_out = None
    /\ sc_in = None /\ sc_out = None
    /\ gs_in = None /\ gs_out = None
    /\ bk_in = None /\ bk_out = None
    /\ \E a \in VisualInputs : vs_in = Some(a)
    /\ vs_out = None
    /\ fb = None
    /\ wr = None

VisualNext ==
    \/ visual_pass

SpecVisual == InitVisual /\ [][VisualNext]_vars

\* C38: on a video with zero or one decodable frame, whatever frame rate and
\* frame count the decoder reports, the scene-change pass and the motion pass
\* raise nothing and return a single bucket that holds zero.
C38_SingleZeroBucket ==
    ~IsNone(vs_out) =>
        /\ Val(vs_out).raised = "none"
        /\ Val(vs_out).scores = <<0>>

\* ---------------------------------------------------------------------------
\* with_retry (utils/error_handling.py): one call of the wrapper it returns
\*
\* A call of the wrapped function ends in one of three ways: it returns
\* ("ok"), it raises an exception of one of the listed types ("listed") or it
\* raises another exception ("other"). The result or exception of call number
\* n is identified by n.
\* ---------------------------------------------------------------------------
FuncOutcomes == {"ok", "listed", "other"}

\* the RetryConfig objects the decorator is given
RetryConfigs ==
    [max_attempts : 0 .. MaxAttempts, initial_delay : InitialDelays,
     exponential_base : ExponentialBases, max_delay : MaxDelays, jitter : BOOLEAN]

\* a wrapper that also sleeps after the last attempt has failed
ShouldSleep_Always(config, attempt) == attempt < config.max_attempts

\* `if attempt < config.max_attempts - 1`
ShouldSleep(config, attempt) == attempt < config.max_attempts - 1

\* `for attempt in range(config.max_attempts)` with no attempt to make: the
\* wrapper goes straight to `raise last_exception`, and last_exception is None
wrapper_no_attempt ==
    /\ ~IsNone(wr)
    /\ Val(wr).pc = "loop"
    /\ Val(wr).config.max_attempts = 0
    /\ wr' = Some([Val(wr) EXCEPT !.pc = "done", !.outcome = <<"raise", "TypeError">>])

\* one pass of the loop: the wrapped function is called and ends as o says; r
\* is the draw of random.random() in get_delay. The pass that ends the loop
\* goes on to `raise last_exception`.
wrapper_attempt(o, r) ==
    /\ ~IsNone(wr)
    /\ Val(wr).pc = "loop"
    /\ Val(wr).attempt < Val(wr).config.max_attempts
    /\ LET w == Val(wr)
           n == Len(w.calls) + 1
           called == [w EXCEPT !.calls = Append(w.calls, o)]
       IN  IF o = "ok"
           THEN wr' = Some([called EXCEPT !.pc = "done", !.outcome = <<"return", n>>])
           ELSE IF o = "other"
           THEN wr' = Some([called EXCEPT !.pc = "done", !.outcome = <<"raise", n>>])
           ELSE LET slept ==
                        IF ShouldSleep(w.config, w.attempt)
                        THEN Append(w.sleeps, [attempt |-> w.attempt,
                                               delay |-> Delay(w.config, w.attempt, r)])
                        ELSE w.sleeps
                IN  IF w.attempt + 1 < w.config.max_attempts
                    THEN wr' = Some([called EXCEPT !.last_exception = Some(n),
                                                  !.sleeps = slept,
                                                  !.attempt = w.attempt + 1])
                    ELSE wr' = Some([called EXCEPT !.last_exception = Some(n),
                                                  !.sleeps = slept,
                                                  !.attempt = w.attempt + 1,
                                                  !.pc = "done",
                                                  !.outcome = <<"raise", n>>])

InitRetry ==
    /\ clips = <<>>
    /\ current_start = None
    /\ cm_call = None
    /\ cm_op = "__init__"
    /\ cm_err = "none"
    /\ sel_in = None
    /\ sel_out = None
    /\ windows = None
    /\ sel_runs = 0
    /\ retry_max = RetryConfigMaxAttempts
    /\ rc = None
    /\ max_workers = 1
    /\ pool_queue = <<>>
    /\ job = [j \in Jobs |-> NewJob]
    /\ subs = NewSubtitleGenerator
    /\ settings = NewSubtitleSettings
    /\ gd_in = None /\ gd_out = None
    /\ sc_in = None /\ sc_out = None
    /\ gs_in = None /\ gs_out = None
    /\ bk_in = None /\ bk_out = None
    /\ vs_in = None /\ vs_out = None
    /\ fb = None
    /\ \E c \in RetryConfigs :
           wr = Some([config |-> c, attempt |-> 0, last_exception |-> None,
                      calls |-> <<>>, sleeps |-> <<>>, pc |-> "loop", outcome |-> None])

RetryNext ==
    \/ /\ wrapper_no_attempt
       /\ UNCHANGED <<cmVars, selVars, rcVars, exVars>>
       /\ UNCHANGED <<gd_in, gd_out, sc_in, sc_out, gs_in, gs_out,
                      bk_in, bk_out, vs_in, vs_out, fb>>
    \/ \E o \in FuncOutcomes, r \in RandomDraws :
           /\ wrapper_attempt(o, r)
           /\ UNCHANGED <<cmVars, selVars, rcVars, exVars>>
           /\ UNCHANGED <<gd_in, gd_out, sc_in, sc_out, gs_in, gs_out,
                          bk_in, bk_out, vs_in, vs_out, fb>>

SpecRetry == InitRetry /\ [][RetryNext]_vars

\* the calls of the wrapped function made so far, and the sleeps
Calls == Val(wr).calls
Sleeps == Val(wr).sleeps

\* C35: the wrapped function is called at most max_attempts times; a call that
\* returns ends the wrapper with its result, and a call that raises an
\* exception outside the listed types ends it with that exception, without a
\* sleep after it; every listed failure but the last allowed one is followed by
\* one sleep of get_delay(attempt index); when all max_attempts calls fail that
\* makes max_attempts - 1 sleeps, get_delay(0) .. get_delay(max_attempts - 2),
\* and the exception of the last call is raised.
C35_WrapperRetries ==
    ~IsNone(wr) =>
        LET w == Val(wr)
            max == w.config.max_attempts
        IN  /\ Len(Calls) <= max
            /\ \A i \in 1 .. Len(Calls) - 1 : Calls[i] = "listed"
            /\ \A i \in 1 .. Len(Sleeps) :
                   /\ Sleeps[i].attempt = i - 1
                   /\ \E r \in RandomDraws :
                          Sleeps[i].delay = Delay(w.config, i - 1, r)
            /\ (Calls # <<>> /\ Calls[Len(Calls)] = "ok") =>
                   /\ w.pc = "done"
                   /\ w.outcome = <<"return", Len(Calls)>>
                   /\ Len(Sleeps) = Len(Calls) - 1
            /\ (Calls # <<>> /\ Calls[Len(Calls)] = "other") =>
                   /\ w.pc = "done"
                   /\ w.outcome = <<"raise", Len(Calls)>>
                   /\ Len(Sleeps) = Len(Calls) - 1
            /\ (Calls # <<>> /\ Calls[Len(Calls)] = "listed") =>
                   IF Len(Calls) = max
                   THEN /\ w.pc = "done"
                        /\ w.outcome = <<"raise", max>>
                        /\ Len(Sleeps) = max - 1
                   ELSE /\ w.pc = "loop"
                        /\ Len(Sleeps) = Len(Calls)

\* three attempts have failed with a listed exception, with jitter on
C35_Witness ==
    /\ ~IsNone(wr)
    /\ Val(wr).config.max_attempts = 3
    /\ Val(wr).config.jitter
    /\ Len(Calls) = 3
    /\ Calls[3] = "listed"
    /\ Val(wr).pc = "done"
    /\ Len(Sleeps) = 2

====
